---- MODULE Spec2Model ----
(***************************************************************************)
(* El Topo: collision pipeline, intersection audit, mesh pincher and the   *)
(* pyeltopo tracker, as state machines.                                    *)
(*                                                                         *)
(* Geometry is one-dimensional: every vector is its component along the    *)
(* contact normal, so the normal is 1 and tangential parts are 0.  Numbers *)
(* are exact fractions <<n, d>>; d = 0 encodes the IEEE values the C++     *)
(* doubles can take: <<1,0>> = +inf, <<-1,0>> = -inf, <<0,0>> = NaN.        *)
(***************************************************************************)
EXTENDS Integers, Sequences, FiniteSets, TLC

(***************************************************************************)
(* Bounds of the model.                                                    *)
(***************************************************************************)
\* MAX_CANDIDATES of process_collision_candidates, scaled down from 1000000
MAX_CANDIDATES == 5
\* the CCD oracle reports at most this many colliding pairs at a time
MaxColl == 1
\* the CCD oracle lets at most this many impulses bring pairs into contact
MaxTurns == 1

(***************************************************************************)
(* Arithmetic on doubles.                                                  *)
(***************************************************************************)
Abs(n) == IF n < 0 THEN -n ELSE n

Sgn(n) == IF n < 0 THEN -1 ELSE IF n > 0 THEN 1 ELSE 0

RECURSIVE GCD(_, _)
GCD(a, b) == IF b = 0 THEN a ELSE GCD(b, a % b)

Norm(n, d) ==
    IF d = 0 THEN <<Sgn(n), 0>>
    ELSE LET s == IF d < 0 THEN -1 ELSE 1
             g == GCD(Abs(n), Abs(d))
         IN  <<(s * n) \div g, (s * d) \div g>>

Zero == <<0, 1>>
One == <<1, 1>>
Half == <<1, 2>>
NaN == <<0, 0>>
PosInf == <<1, 0>>

IsFinite(a) == a[2] # 0

RInt(n) == <<n, 1>>

\* common factors are cancelled before multiplying
RMul(a, b) ==
    IF a[2] = 0 \/ b[2] = 0 \/ a[1] = 0 \/ b[1] = 0
       \/ (Abs(a[1]) < 30000 /\ a[2] < 30000 /\ Abs(b[1]) < 30000 /\ b[2] < 30000)
    THEN Norm(a[1] * b[1], a[2] * b[2])
    ELSE Norm((a[1] \div GCD(Abs(a[1]), b[2])) * (b[1] \div GCD(Abs(b[1]), a[2])),
              (a[2] \div GCD(Abs(b[1]), a[2])) * (b[2] \div GCD(Abs(a[1]), b[2])))

RAdd(a, b) ==
    IF a[2] = 0 /\ b[2] = 0
    THEN (IF a = b THEN a ELSE NaN)
    ELSE IF a[2] = 0 \/ b[2] = 0
    THEN Norm(a[1] * b[2] + b[1] * a[2], 0)
    ELSE Norm(a[1] * (b[2] \div GCD(a[2], b[2])) + b[1] * (a[2] \div GCD(a[2], b[2])),
              a[2] * (b[2] \div GCD(a[2], b[2])))

RNeg(a) == <<-a[1], a[2]>>

RSub(a, b) == RAdd(a, RNeg(b))

\* 1.0 / a : 1/inf = 0, 1/0 = inf, 1/NaN = NaN
RInv(a) ==
    IF a[2] = 0 THEN (IF a[1] = 0 THEN NaN ELSE Zero)
    ELSE IF a[1] = 0 THEN PosInf
    ELSE Norm(a[2], a[1])

RDiv(a, b) == RMul(a, RInv(b))

\* a < b on doubles: false whenever one side is NaN
RLt(a, b) ==
    /\ a # NaN
    /\ b # NaN
    /\ IF a[2] = 0 /\ b[2] = 0 THEN a[1] < b[1]
       ELSE IF a[2] = 0 \/ b[2] = 0 THEN a[1] * b[2] < b[1] * a[2]
       ELSE IF Abs(a[1]) < 30000 /\ a[2] < 30000 /\ Abs(b[1]) < 30000 /\ b[2] < 30000
       THEN a[1] * b[2] < b[1] * a[2]
       ELSE a[1] * (b[2] \div GCD(a[2], b[2])) < b[1] * (a[2] \div GCD(a[2], b[2]))

\* min of common/util.h: a1 < a2 ? a1 : a2
RMin(a, b) == IF RLt(a, b) THEN a ELSE b

RMax(a, b) == IF RLt(b, a) THEN a ELSE b

\* |a|
RMag(a) == <<Abs(a[1]), a[2]>>


(***************************************************************************)
(* State.                                                                  *)
(***************************************************************************)
VARIABLES
    \* DynamicSurface / NonDestructiveTriMesh
    m_tris,             \* triangle table, 0-based; <<0,0,0>> is a removed slot
    m_edges,            \* edge table, 0-based; <<0,0>> is a removed slot
    m_masses,           \* per vertex; +inf marks a solid vertex
    m_positions,        \* x
    m_newpositions,     \* x' (predicted)
    m_velocities,       \* u
    \* the CCD oracle and the broad phase, as the pipeline sees them
    coll,               \* pairs the CCD query reports as colliding between x and x'
    bp_slack,           \* TRUE: every element's AABB overlaps every query box
    turns,              \* impulses after which the oracle answered afresh
    \* CollisionPipeline::handle_collisions
    pc,                 \* position in handle_collisions
    dt,                 \* its argument
    loop_i,             \* index of the primitive loop of the current pass
    candidates,         \* list being processed by process_collision_candidates
    update_collision_candidates,
    iter_i,             \* i of process_collision_candidates
    max_iteration,
    status,             \* ProcessCollisionStatus
    collision_found,
    proc,               \* TRUE inside process_collision_candidates
    ret,                \* what handle_collisions returned ("none" while running)
    \* history, for the properties only
    h_pre,              \* u, x' and the oracle's answers when the call started
    h_entry,            \* list size on entry to process_collision_candidates, trips since
    h_log,              \* what the last step of process_collision_candidates did
    \* the broad phase's boxes and the static intersection test
    m_aabb_padding,     \* DynamicSurface::m_aabb_padding
    bp_continuous,      \* TRUE: the grids hold continuous boxes, FALSE: static ones
    isect,              \* pairs segment_triangle_intersection answers positive for
    \* CollisionPipeline::get_intersections
    audit_pc,           \* position in get_intersections
    use_new_positions,  \* its argument
    audit_i,            \* its triangle index i
    intersections,      \* its output
    by_index,           \* last call of check_edge_triangle_intersection_by_index
    \* ElTopoTracker::integrate and step
    trk_pc,             \* position in the call
    via_step,           \* TRUE: integrate was called by step
    trk_dt,             \* the argument dt
    ret_dt,             \* the local ret_dt
    trk_r,              \* the value returned ("none" until then)
    h_x,                \* history: m_positions when the call started
    m_defrag_mesh,      \* ElTopoTracker::m_defrag_mesh
    h_events,           \* history: the surface operations the call has run
    \* MeshPincher
    m_collision_safety, \* SurfTrack::m_collision_safety
    bp_vertex,          \* the vertex grids: vertex |-> the position it was added at
    pinch_pc,           \* position in process_mesh
    pinch_i,            \* its vertex index i
    pull,               \* arguments and locals of pull_apart_vertex
    pull_ret,           \* what the last pull_apart_vertex returned
    h_rejected,         \* history: some pull_apart_vertex returned false
    h_before,           \* history: the surface when pull_apart_vertex was called
    h_pass,             \* history: the trips of the loop of process_mesh so far
    \* CollisionPipeline::handle_proximities
    near,               \* pair |-> the static distance check_*_proximity finds
    \* BroadPhaseGrid
    grids,              \* kind |-> the solid and the dynamic AccelerationGrid
    calls,              \* calls made so far
    h_gone,             \* history: elements removed and not registered since
    \* CollisionPipeline::detect_collisions and detect_new_collisions
    collisions          \* the output vector: the candidate behind each Collision

meshVars == <<m_tris, m_edges, m_masses, m_positions>>
kinVars == <<m_newpositions, m_velocities>>
oracleVars == <<coll, bp_slack, turns>>
pipeVars == <<pc, dt, loop_i, candidates, update_collision_candidates, iter_i,
              max_iteration, status, collision_found, proc, ret>>
histVars == <<h_pre, h_entry, h_log>>
auditVars == <<m_aabb_padding, bp_continuous, isect, audit_pc, use_new_positions,
               audit_i, intersections, by_index>>
trackerVars == <<trk_pc, via_step, trk_dt, ret_dt, trk_r, h_x, m_defrag_mesh, h_events>>
pincherVars == <<m_collision_safety, bp_vertex, pinch_pc, pinch_i, pull, pull_ret,
                 h_rejected, h_before, h_pass>>
extraVars == <<near, grids, calls, h_gone, collisions>>
otherVars == <<auditVars, trackerVars, pincherVars, extraVars>>
vars == <<meshVars, kinVars, oracleVars, pipeVars, histVars, otherVars>>

(***************************************************************************)
(* Tables with 0-based indices (std::vector).                              *)
(***************************************************************************)
Size(f) == Cardinality(DOMAIN f)

PushBack(f, x) == [i \in 0..Size(f) |-> IF i < Size(f) THEN f[i] ELSE x]

RECURSIVE SetToSeq(_)
SetToSeq(S) ==
    IF S = {} THEN <<>>
    ELSE LET m == CHOOSE x \in S : \A y \in S : x <= y
         IN  <<m>> \o SetToSeq(S \ {m})

Range(s) == {s[i] : i \in DOMAIN s}

RECURSIVE Concat(_)
Concat(ss) == IF ss = <<>> THEN <<>> ELSE Head(ss) \o Concat(Tail(ss))

(***************************************************************************)
(* Mesh and surface accessors.                                             *)
(***************************************************************************)
Verts == DOMAIN m_masses

TriVerts(t) == {m_tris[t][1], m_tris[t][2], m_tris[t][3]}

EdgeVerts(e) == {m_edges[e][1], m_edges[e][2]}

TriIsDead(t) == m_tris[t][1] = m_tris[t][2]

EdgeIsDead(e) == m_edges[e][1] = m_edges[e][2]

\* a solid vertex has infinite mass
vertex_is_solid(v) == m_masses[v] = PosInf

edge_is_solid(e) == vertex_is_solid(m_edges[e][1]) /\ vertex_is_solid(m_edges[e][2])

triangle_is_solid(t) ==
    /\ vertex_is_solid(m_tris[t][1])
    /\ vertex_is_solid(m_tris[t][2])
    /\ vertex_is_solid(m_tris[t][3])

\* incidence maps: removed slots are unlinked
m_vertex_to_triangle_map(v) ==
    SetToSeq({t \in DOMAIN m_tris : ~TriIsDead(t) /\ v \in TriVerts(t)})

m_vertex_to_edge_map(v) ==
    SetToSeq({e \in DOMAIN m_edges : ~EdgeIsDead(e) /\ v \in EdgeVerts(e)})

Min2(a, b) == IF a < b THEN a ELSE b

Max2(a, b) == IF a < b THEN b ELSE a

\* the three vertices in ascending order
sort_triangle(tri) ==
    LET lo == Min2(tri[1], Min2(tri[2], tri[3]))
        hi == Max2(tri[1], Max2(tri[2], tri[3]))
    IN  <<lo, tri[1] + tri[2] + tri[3] - lo - hi, hi>>

(***************************************************************************)
(* The CCD oracle.  segment_segment_collision and point_triangle_collision *)
(* are answered from coll: a point-triangle pair is <<t, v, 0>>, an        *)
(* edge-edge pair is <<e, f, 1>> with e < f.                                *)
(***************************************************************************)
PTKey(t, v) == <<t, v, 0>>

EEKey(e, f) == <<Min2(e, f), Max2(e, f), 1>>

PTIncident(t, v) == v \in TriVerts(t)

EEIncident(e, f) == EdgeVerts(e) \cap EdgeVerts(f) # {}

\* the pairs CCD is ever asked about with a chance of a hit
AllPairs ==
    {k \in (DOMAIN m_tris) \X Verts \X {0} :
        ~TriIsDead(k[1]) /\ ~PTIncident(k[1], k[2])}
    \cup
    {k \in (DOMAIN m_edges) \X (DOMAIN m_edges) \X {1} :
        /\ k[1] < k[2]
        /\ ~EdgeIsDead(k[1])
        /\ ~EdgeIsDead(k[2])
        /\ ~EEIncident(k[1], k[2])}

PairVerts(k) ==
    IF k[3] = 0 THEN TriVerts(k[1]) \cup {k[2]}
    ELSE EdgeVerts(k[1]) \cup EdgeVerts(k[2])

\* the pairs the oracle may ever bring into contact
Watched == {EEKey(0, 5), EEKey(0, 4), PTKey(0, 3), PTKey(1, 0)} \cap AllPairs

\* the pairs with a vertex among moved
Touched(moved) == {k \in AllPairs : PairVerts(k) \cap moved # {}}

\* the answers CCD can give once the vertices in moved have a new x': a pair
\* none of whose vertices moved keeps its answer
OracleNext(moved) ==
    IF moved = {} THEN {coll}
    ELSE IF turns < MaxTurns
    THEN {c \in SUBSET ((coll \ Touched(moved)) \cup (Watched \cap Touched(moved))) :
            /\ Cardinality(c) <= MaxColl
            /\ coll \ Touched(moved) \subseteq c}
    ELSE {coll \ Touched(moved)}

\* parameters (s0, s2) and weights (s1, s2, s3) CCD can report
EdgeBary == {<<Zero, Half>>, <<Half, Half>>}

TriBary == {<<Half, Half, Zero>>, <<Zero, Zero, One>>}

(***************************************************************************)
(* BroadPhaseGrid queries.  The query box is the continuous box of a       *)
(* primitive; a stored box overlaps it when the two primitives touch,      *)
(* collide, or the boxes are loose.                                        *)
(***************************************************************************)
OverlapPT(c, t, v) == bp_slack \/ PTIncident(t, v) \/ PTKey(t, v) \in c

OverlapEE(c, e, f) == bp_slack \/ EEIncident(e, f) \/ EEKey(e, f) \in c

\* vertices whose box overlaps the box of triangle t
get_potential_vertex_collisions(c, t, return_solid, return_dynamic) ==
    (IF return_solid
     THEN SetToSeq({v \in Verts : vertex_is_solid(v) /\ OverlapPT(c, t, v)})
     ELSE <<>>)
    \o
    (IF return_dynamic
     THEN SetToSeq({v \in Verts : ~vertex_is_solid(v) /\ OverlapPT(c, t, v)})
     ELSE <<>>)

\* triangles whose box overlaps the box of vertex v
get_potential_triangle_collisions(c, v, return_solid, return_dynamic) ==
    (IF return_solid
     THEN SetToSeq({t \in DOMAIN m_tris :
                      ~TriIsDead(t) /\ triangle_is_solid(t) /\ OverlapPT(c, t, v)})
     ELSE <<>>)
    \o
    (IF return_dynamic
     THEN SetToSeq({t \in DOMAIN m_tris :
                      ~TriIsDead(t) /\ ~triangle_is_solid(t) /\ OverlapPT(c, t, v)})
     ELSE <<>>)

\* edges whose box overlaps the box of edge e
get_potential_edge_collisions(c, e, return_solid, return_dynamic) ==
    (IF return_solid
     THEN SetToSeq({f \in DOMAIN m_edges :
                      ~EdgeIsDead(f) /\ edge_is_solid(f) /\ OverlapEE(c, e, f)})
     ELSE <<>>)
    \o
    (IF return_dynamic
     THEN SetToSeq({f \in DOMAIN m_edges :
                      ~EdgeIsDead(f) /\ ~edge_is_solid(f) /\ OverlapEE(c, e, f)})
     ELSE <<>>)

(***************************************************************************)
(* CollisionPipeline: candidate generation.                                *)
(***************************************************************************)
add_triangle_candidates(c, t, return_solid, return_dynamic) ==
    LET cv == get_potential_vertex_collisions(c, t, return_solid, return_dynamic)
    IN  [j \in 1..Len(cv) |-> <<t, cv[j], 0>>]

add_edge_candidates(c, e, return_solid, return_dynamic) ==
    LET ce == get_potential_edge_collisions(c, e, return_solid, return_dynamic)
    IN  [j \in 1..Len(ce) |-> <<e, ce[j], 1>>]

add_point_candidates(c, v, return_solid, return_dynamic) ==
    LET ct == get_potential_triangle_collisions(c, v, return_solid, return_dynamic)
    IN  [j \in 1..Len(ct) |-> <<ct[j], v, 0>>]

add_point_update_candidates(c, v) ==
    IF vertex_is_solid(v) THEN <<>>
    ELSE LET incident_triangles == m_vertex_to_triangle_map(v)
             incident_edges == m_vertex_to_edge_map(v)
         IN  add_point_candidates(c, v, TRUE, TRUE)
             \o Concat([i \in 1..Len(incident_triangles) |->
                          add_triangle_candidates(c, incident_triangles[i], TRUE, TRUE)])
             \o Concat([i \in 1..Len(incident_edges) |->
                          add_edge_candidates(c, incident_edges[i], TRUE, TRUE)])

(***************************************************************************)
(* CollisionPipeline::apply_impulse and its two callers.                   *)
(***************************************************************************)
IMPULSE_MULTIPLIER == One

m_friction_coefficient == Zero

\* the 1e-8 threshold on the tangential direction
TanEps == <<1, 100000000>>

Sum4(a) == RAdd(RAdd(RAdd(a[1], a[2]), a[3]), a[4])

\* s0*s0*inv_m0 + s1*s1*inv_m1 + s2*s2*inv_m2 + s3*s3*inv_m3
ImpulseDenominator(alphas, inv_m) ==
    Sum4([k \in 1..4 |-> RMul(RMul(alphas[k], alphas[k]), inv_m[k])])

\* s0*v0 + s1*v1 + s2*v2 + s3*v3
RelativeVelocity(alphas, e, vel) ==
    Sum4([k \in 1..4 |-> RMul(alphas[k], vel[e[k]])])

\* dot(normal, rv) * normal
NormalPart(normal, rv) == RMul(RMul(normal, rv), normal)

TangentialPart(normal, rv) == RSub(rv, NormalPart(normal, rv))

\* v += amount, through the reference to m_velocities[v]
AddToVelocity(vel, v, amount) == [vel EXCEPT ![v] = RAdd(@, amount)]

\* v_k += j * s_k * inv_mk * dir for the four vertices in turn
AddImpulse(vel, alphas, e, inv_m, j, dir) ==
    AddToVelocity(
        AddToVelocity(
            AddToVelocity(
                AddToVelocity(vel, e[1], RMul(RMul(RMul(j, alphas[1]), inv_m[1]), dir)),
                e[2], RMul(RMul(RMul(j, alphas[2]), inv_m[2]), dir)),
            e[3], RMul(RMul(RMul(j, alphas[3]), inv_m[3]), dir)),
        e[4], RMul(RMul(RMul(j, alphas[4]), inv_m[4]), dir))

\* friction_i of the friction step
FrictionI(normal, pre_relative_velocity, post_relative_velocity, denom) ==
    RDiv(RMin(RMul(m_friction_coefficient,
                   RMag(RSub(NormalPart(normal, post_relative_velocity),
                             NormalPart(normal, pre_relative_velocity)))),
              RMag(TangentialPart(normal, pre_relative_velocity))),
         denom)

\* tan_collision_normal: -pre_rv_tangential, normalised or zeroed
TanCollisionNormal(pre_rv_tangential) ==
    IF RLt(TanEps, RMag(RNeg(pre_rv_tangential)))
    THEN RDiv(RNeg(pre_rv_tangential), RMag(RNeg(pre_rv_tangential)))
    ELSE Zero

\* an apply_impulse without its last four lines
Mut_SetNewPosition(np, v, vel, dtt) == np

\* set_newposition(e_k, get_position(e_k) + dt * m_velocities[e_k])
SetNewPosition(np, v, vel, dtt) ==
    [np EXCEPT ![v] = RAdd(m_positions[v], RMul(dtt, vel[v]))]

\* the last four lines of apply_impulse
ImpulseResult(e, vel, dtt) ==
    [velocities |-> vel,
     newpositions |->
        SetNewPosition(
            SetNewPosition(
                SetNewPosition(
                    SetNewPosition(m_newpositions, e[1], vel, dtt),
                    e[2], vel, dtt),
                e[3], vel, dtt),
            e[4], vel, dtt)]

\* the friction step, va the velocities after the normal impulse
ApplyFriction(alphas, e, normal, dtt, inv_m, denom, pre_relative_velocity, va) ==
    ImpulseResult(e,
        AddImpulse(va, alphas, e, inv_m,
                   FrictionI(normal, pre_relative_velocity,
                             RelativeVelocity(alphas, e, va), denom),
                   TanCollisionNormal(TangentialPart(normal, pre_relative_velocity))),
        dtt)

\* the normal impulse i = impulse_magnitude / denom
ApplyNormalImpulse(alphas, e, impulse_magnitude, normal, dtt, inv_m, denom) ==
    ApplyFriction(alphas, e, normal, dtt, inv_m, denom,
                  RelativeVelocity(alphas, e, m_velocities),
                  AddImpulse(m_velocities, alphas, e, inv_m,
                             RDiv(impulse_magnitude, denom), normal))

ApplyWithInverseMasses(alphas, e, impulse_magnitude, normal, dtt, inv_m) ==
    ApplyNormalImpulse(alphas, e, impulse_magnitude, normal, dtt, inv_m,
                       ImpulseDenominator(alphas, inv_m))

\* the velocities and predicted positions apply_impulse leaves behind
apply_impulse(alphas, vertex_indices, impulse_magnitude, normal, dtt) ==
    ApplyWithInverseMasses(alphas, vertex_indices, impulse_magnitude, normal, dtt,
        [k \in 1..4 |-> RInv(m_masses[vertex_indices[k]])])

apply_edge_edge_impulse(collision, impulse_magnitude, dtt) ==
    LET s == collision.m_barycentric_coordinates
    IN  apply_impulse(<<s[1], s[2], RNeg(s[3]), RNeg(s[4])>>,
                      collision.m_vertex_indices, impulse_magnitude,
                      collision.m_normal, dtt)

apply_triangle_point_impulse(collision, impulse_magnitude, dtt) ==
    LET s == collision.m_barycentric_coordinates
    IN  apply_impulse(<<s[1], RNeg(s[2]), RNeg(s[3]), RNeg(s[4])>>,
                      collision.m_vertex_indices, impulse_magnitude,
                      collision.m_normal, dtt)

(***************************************************************************)
(* Narrow phase.                                                           *)
(***************************************************************************)
\* displacement of the contact points relative to each other, along the normal
RelDisp(alphas, vi) ==
    Sum4([k \in 1..4 |->
            RMul(alphas[k], RSub(m_newpositions[vi[k]], m_positions[vi[k]]))])

detect_segment_segment_collision(candidate) ==
    LET e0 == m_edges[candidate[1]]
        e1 == m_edges[candidate[2]]
    IN  /\ e0[1] # e0[2]
        /\ e1[1] # e1[2]
        /\ ~(e0[1] = e1[1] \/ e0[1] = e1[2] \/ e0[2] = e1[1] \/ e0[2] = e1[2])
        /\ ~(edge_is_solid(candidate[1]) /\ edge_is_solid(candidate[2]))
        /\ EEKey(candidate[1], candidate[2]) \in coll

\* the Collision it fills in when CCD reports the parameters s0 and s2
SegmentSegmentCollision(candidate, s0, s2) ==
    LET e0 == m_edges[candidate[1]]
        e1 == m_edges[candidate[2]]
        vi == <<Min2(e0[1], e0[2]), Max2(e0[1], e0[2]),
                Min2(e1[1], e1[2]), Max2(e1[1], e1[2])>>
        bary == <<s0, RSub(One, s0), s2, RSub(One, s2)>>
    IN  [m_is_edge_edge |-> TRUE,
         m_vertex_indices |-> vi,
         m_normal |-> One,
         m_barycentric_coordinates |-> bary,
         m_relative_displacement |->
             RelDisp(<<bary[1], bary[2], RNeg(bary[3]), RNeg(bary[4])>>, vi)]

\* a narrow phase that reports every pair it does not filter out
Mut_detect_point_triangle_collision(candidate) ==
    LET t == candidate[1]
        tri == m_tris[t]
        v == candidate[2]
    IN  /\ ~(tri[1] = v \/ tri[2] = v \/ tri[3] = v)
        /\ ~(triangle_is_solid(t) /\ vertex_is_solid(v))

detect_point_triangle_collision(candidate) ==
    LET t == candidate[1]
        tri == m_tris[t]
        v == candidate[2]
    IN  /\ ~(tri[1] = v \/ tri[2] = v \/ tri[3] = v)
        /\ ~(triangle_is_solid(t) /\ vertex_is_solid(v))
        /\ PTKey(t, v) \in coll

\* the Collision it fills in when CCD reports the weights s
PointTriangleCollision(candidate, s) ==
    LET sorted_tri == sort_triangle(m_tris[candidate[1]])
        vi == <<candidate[2], sorted_tri[1], sorted_tri[2], sorted_tri[3]>>
        bary == <<One, s[1], s[2], s[3]>>
    IN  [m_is_edge_edge |-> FALSE,
         m_vertex_indices |-> vi,
         m_normal |-> One,
         m_barycentric_coordinates |-> bary,
         m_relative_displacement |->
             RelDisp(<<bary[1], RNeg(bary[2]), RNeg(bary[3]), RNeg(bary[4])>>, vi)]

(***************************************************************************)
(* CollisionPipeline::process_collision_candidates, one trip round its     *)
(* while loop per step.  In the wind-down candidates and new_candidates    *)
(* are the same list, update_collision_candidates.                         *)
(***************************************************************************)
MAX_PASS == 1

\* collect_candidates of the only pass, pass 0
collect_candidates == (0 = MAX_PASS - 1)

\* a ProcessCollisionStatus is a record of the fields written so far: the
\* wind-down's status starts with overflow alone
Assign(written, st) == written @@ st

NoLog == [kind |-> "none", overflow_before |-> FALSE, enqueued |-> 0]

\* the list the loop pops from
CurrentList == IF pc = "winddown" THEN update_collision_candidates ELSE candidates

\* the loop without its iteration cap
Mut_LoopRuns == CurrentList # <<>>

LoopRuns == CurrentList # <<>> /\ iter_i < max_iteration

\* detect_* returned false: the candidate is dropped
ProcessMiss(rest) ==
    /\ IF pc = "winddown"
       THEN update_collision_candidates' = rest /\ candidates' = candidates
       ELSE candidates' = rest /\ UNCHANGED update_collision_candidates
    /\ h_log' = [kind |-> "miss", overflow_before |-> status.overflow, enqueued |-> 0]
    /\ UNCHANGED <<kinVars, coll, turns, status>>

\* enqueueing that ignores status.overflow
Mut_NewCandidates(overflow, add_to_new_candidates, c, vi) ==
    IF add_to_new_candidates
    THEN add_point_update_candidates(c, vi[1])
         \o add_point_update_candidates(c, vi[2])
         \o add_point_update_candidates(c, vi[3])
         \o add_point_update_candidates(c, vi[4])
    ELSE <<>>

\* what a hit appends to new_candidates
NewCandidates(overflow, add_to_new_candidates, c, vi) ==
    IF ~overflow /\ add_to_new_candidates
    THEN add_point_update_candidates(c, vi[1])
         \o add_point_update_candidates(c, vi[2])
         \o add_point_update_candidates(c, vi[3])
         \o add_point_update_candidates(c, vi[4])
    ELSE <<>>

\* detect_* returned true and filled in collision
ProcessHit(collision, rest, add_to_new_candidates) ==
    LET relvel == RDiv(collision.m_relative_displacement, dt)
        desired_relative_velocity == Zero
        impulse == RMul(IMPULSE_MULTIPLIER, RSub(desired_relative_velocity, relvel))
        res == IF collision.m_is_edge_edge
               THEN apply_edge_edge_impulse(collision, impulse, dt)
               ELSE apply_triangle_point_impulse(collision, impulse, dt)
        moved == {v \in Verts : res.newpositions[v] # m_newpositions[v]}
        new_candidates == IF pc = "winddown" THEN rest ELSE update_collision_candidates
        overflow == status.overflow \/ Len(new_candidates) > MAX_CANDIDATES
        vi == collision.m_vertex_indices
    IN  /\ m_velocities' = res.velocities
        /\ m_newpositions' = res.newpositions
        /\ status' = Assign([collision_found |-> TRUE, overflow |-> overflow], status)
        /\ \E c \in OracleNext(moved) :
             LET added == NewCandidates(overflow, add_to_new_candidates, c, vi)
             IN  /\ coll' = c
                 /\ turns' = IF moved = {} THEN turns ELSE Min2(turns + 1, MaxTurns)
                 /\ IF pc = "winddown"
                    THEN /\ update_collision_candidates' = rest \o added
                         /\ candidates' = candidates
                    ELSE /\ candidates' = rest
                         /\ update_collision_candidates' =
                                update_collision_candidates \o added
                 /\ h_log' = [kind |-> "hit", overflow_before |-> status.overflow,
                              enqueued |-> Len(added)]

process_collision_candidates_step ==
    /\ UNCHANGED otherVars
    /\ proc
    /\ LoopRuns
    /\ iter_i' = iter_i + 1
    /\ h_entry' = [h_entry EXCEPT !.trips = @ + 1]
    /\ LET candidate == Head(CurrentList)
           rest == Tail(CurrentList)
           add_to_new_candidates == (pc = "winddown") \/ collect_candidates
       IN  IF candidate[3] = 1
           THEN IF detect_segment_segment_collision(candidate)
                THEN \E s \in EdgeBary :
                        ProcessHit(SegmentSegmentCollision(candidate, s[1], s[2]),
                                   rest, add_to_new_candidates)
                ELSE ProcessMiss(rest)
           ELSE IF detect_point_triangle_collision(candidate)
                THEN \E s \in TriBary :
                        ProcessHit(PointTriangleCollision(candidate, s),
                                   rest, add_to_new_candidates)
                ELSE ProcessMiss(rest)
    /\ UNCHANGED <<meshVars, bp_slack, pc, dt, loop_i, max_iteration,
                   collision_found, proc, ret, h_pre>>

\* the loop of a main-pass call is over: line 756, then back to the caller's loop
process_collision_candidates_exit ==
    /\ UNCHANGED otherVars
    /\ proc
    /\ pc # "winddown"
    /\ ~LoopRuns
    /\ status' = Assign([all_candidates_processed |-> (candidates = <<>>)], status)
    /\ candidates' = <<>>
    /\ proc' = FALSE
    /\ loop_i' = loop_i + 1
    /\ h_log' = NoLog
    /\ UNCHANGED <<meshVars, kinVars, oracleVars, pc, dt, update_collision_candidates,
                   iter_i, max_iteration, collision_found, ret, h_pre, h_entry>>

\* a caller's loop body: build the primitive's candidates, enter the loop
EnterProcess(list) ==
    /\ candidates' = list
    /\ max_iteration' = 5 * Len(list)
    /\ iter_i' = 0
    /\ proc' = TRUE
    /\ h_entry' = [n |-> Len(list), trips |-> 0]
    /\ UNCHANGED <<pc, loop_i, collision_found>>

SkipPrimitive ==
    /\ loop_i' = loop_i + 1
    /\ UNCHANGED <<pc, candidates, max_iteration, iter_i, proc, collision_found,
                   h_entry>>

\* the caller's loop is over: collision_found |= status.collision_found
NextPhase(phase) ==
    /\ pc' = phase
    /\ loop_i' = 0
    /\ collision_found' = (collision_found \/ status.collision_found)
    /\ UNCHANGED <<candidates, max_iteration, iter_i, proc, h_entry>>

LoopFrame ==
    /\ h_log' = NoLog
    /\ UNCHANGED <<meshVars, kinVars, oracleVars, dt, update_collision_candidates,
                   status, ret, h_pre>>

dynamic_point_vs_solid_triangle_collisions ==
    /\ UNCHANGED otherVars
    /\ pc = "point"
    /\ ~proc
    /\ IF loop_i < Size(m_masses)
       THEN IF vertex_is_solid(loop_i)
            THEN SkipPrimitive
            ELSE EnterProcess(add_point_candidates(coll, loop_i, TRUE, FALSE))
       ELSE NextPhase("tri")
    /\ LoopFrame

dynamic_triangle_vs_all_point_collisions ==
    /\ UNCHANGED otherVars
    /\ pc = "tri"
    /\ ~proc
    /\ IF loop_i < Size(m_tris)
       THEN IF triangle_is_solid(loop_i)
            THEN SkipPrimitive
            ELSE EnterProcess(add_triangle_candidates(coll, loop_i, TRUE, TRUE))
       ELSE NextPhase("edge")
    /\ LoopFrame

dynamic_edge_vs_all_edge_collisions ==
    /\ UNCHANGED otherVars
    /\ pc = "edge"
    /\ ~proc
    /\ IF loop_i < Size(m_edges)
       THEN IF edge_is_solid(loop_i)
            THEN SkipPrimitive
            ELSE EnterProcess(add_edge_candidates(coll, loop_i, TRUE, TRUE))
       ELSE NextPhase("pass_end")
    /\ LoopFrame

(***************************************************************************)
(* CollisionPipeline::handle_collisions.                                   *)
(***************************************************************************)
CollisionCandidateSetLT(a, b) ==
    \/ a[1] < b[1]
    \/ a[1] = b[1] /\ a[2] < b[2]
    \/ a[1] = b[1] /\ a[2] = b[2] /\ a[3] < b[3]

\* std::sort followed by std::unique and erase
RECURSIVE SortUnique(_)
SortUnique(S) ==
    IF S = {} THEN <<>>
    ELSE LET m == CHOOSE a \in S : \A b \in S : b = a \/ CollisionCandidateSetLT(a, b)
         IN  <<m>> \o SortUnique(S \ {m})

\* entry: the locals of the call and of its only pass
handle_collisions_begin ==
    /\ UNCHANGED otherVars
    /\ pc = "idle"
    /\ pc' = "point"
    /\ loop_i' = 0
    /\ update_collision_candidates' = <<>>
    /\ collision_found' = FALSE
    /\ status' = [overflow |-> FALSE, collision_found |-> FALSE,
                  all_candidates_processed |-> FALSE]
    /\ h_pre' = [velocities |-> m_velocities, newpositions |-> m_newpositions,
                 coll |-> coll]
    /\ h_log' = NoLog
    /\ UNCHANGED <<meshVars, kinVars, oracleVars, dt, candidates, iter_i,
                   max_iteration, proc, ret, h_entry>>

\* after the three loops: the two early returns, else sort, unique and enter
\* the wind-down with a fresh status of which only overflow is initialised
handle_collisions_pass_end ==
    /\ UNCHANGED otherVars
    /\ pc = "pass_end"
    /\ IF status.overflow
       THEN /\ ret' = "false"
            /\ pc' = "done"
            /\ UNCHANGED <<update_collision_candidates, status, iter_i,
                           max_iteration, proc, h_entry>>
       ELSE IF ~collision_found
       THEN /\ ret' = "true"
            /\ pc' = "done"
            /\ UNCHANGED <<update_collision_candidates, status, iter_i,
                           max_iteration, proc, h_entry>>
       ELSE /\ update_collision_candidates' =
                   SortUnique(Range(update_collision_candidates))
            /\ status' = [overflow |-> FALSE]
            /\ max_iteration' = 5 * Len(update_collision_candidates')
            /\ iter_i' = 0
            /\ proc' = TRUE
            /\ pc' = "winddown"
            /\ ret' = ret
            /\ h_entry' = [n |-> Len(update_collision_candidates'), trips |-> 0]
    /\ h_log' = NoLog
    /\ UNCHANGED <<meshVars, kinVars, oracleVars, dt, loop_i, candidates,
                   collision_found, h_pre>>

\* the wind-down loop is over: line 756, then ok and the return
handle_collisions_return ==
    /\ UNCHANGED otherVars
    /\ pc = "winddown"
    /\ proc
    /\ ~LoopRuns
    /\ LET all_candidates_processed == (update_collision_candidates = <<>>)
           ok == IF status.overflow THEN FALSE ELSE all_candidates_processed
       IN  /\ status' = Assign([all_candidates_processed |-> all_candidates_processed],
                                status)
           /\ ret' = IF ok THEN "true" ELSE "false"
    /\ pc' = "done"
    /\ proc' = FALSE
    /\ h_log' = NoLog
    /\ UNCHANGED <<meshVars, kinVars, oracleVars, dt, loop_i, candidates,
                   update_collision_candidates, iter_i, max_iteration,
                   collision_found, h_pre, h_entry>>

(***************************************************************************)
(* Initial states: two triangles joined at vertex 2, a choice of solid     *)
(* vertices and of velocities, x' = x + dt u, and what CCD sees at first.  *)
(***************************************************************************)
FixtureTris == (0 :> <<0, 1, 2>>) @@ (1 :> <<2, 3, 4>>)

FixtureEdges ==
    (0 :> <<0, 1>>) @@ (1 :> <<1, 2>>) @@ (2 :> <<2, 0>>) @@
    (3 :> <<2, 3>>) @@ (4 :> <<3, 4>>) @@ (5 :> <<4, 2>>)

FixtureVerts == 0..4

SolidSets == {{}, {0, 1, 4}, {0, 1, 3, 4}, {0, 1, 2}}

VelocityFields ==
    {[v \in FixtureVerts |-> Zero],
     [v \in FixtureVerts |-> IF v < 2 THEN One ELSE IF v = 2 THEN Zero ELSE RInt(-1)]}

\* handle_collisions has not been called
PipelineIdle ==
    /\ pc = "idle"
    /\ loop_i = 0
    /\ candidates = <<>>
    /\ update_collision_candidates = <<>>
    /\ iter_i = 0
    /\ max_iteration = 0
    /\ status = [overflow |-> FALSE, collision_found |-> FALSE,
                 all_candidates_processed |-> FALSE]
    /\ collision_found = FALSE
    /\ proc = FALSE
    /\ ret = "none"
    /\ h_pre = [velocities |-> m_velocities, newpositions |-> m_newpositions,
                coll |-> coll]
    /\ h_entry = [n |-> 0, trips |-> 0]
    /\ h_log = NoLog

NoCall == [called |-> FALSE]

\* get_intersections has not been called
AuditIdle ==
    /\ audit_pc = "idle"
    /\ audit_i = 0
    /\ intersections = <<>>
    /\ by_index = NoCall

\* no call of the tracker is under way
TrackerIdle ==
    /\ trk_pc = "idle"
    /\ via_step = FALSE
    /\ trk_dt = Zero
    /\ ret_dt = Zero
    /\ trk_r = "none"
    /\ h_x = m_positions
    /\ m_defrag_mesh = FALSE
    /\ h_events = <<>>

NoPull == [vertex_index |-> 0, connected_components |-> <<>>,
           triangles_to_add |-> <<>>, triangles_to_delete |-> <<>>,
           vertices_added |-> <<>>]

\* no trip of the loop of process_mesh has run
NoPass == [num_vertices |-> 0, examined |-> <<>>, pulled |-> {}]

Surface ==
    [tris |-> m_tris, edges |-> m_edges, masses |-> m_masses,
     positions |-> m_positions, newpositions |-> m_newpositions,
     bp_vertex |-> bp_vertex]

\* process_mesh has not been called; every vertex is in the grids
PincherIdle ==
    /\ bp_vertex = m_positions
    /\ pinch_pc = "idle"
    /\ pinch_i = 0
    /\ pull = NoPull
    /\ pull_ret = "none"
    /\ h_rejected = FALSE
    /\ h_before = Surface
    /\ h_pass = NoPass

\* the kinds of element the broad phase keeps grids for
GridKinds == {"vertex", "edge", "triangle"}

\* the grids hold nothing
GridIdle ==
    /\ grids = [kind \in GridKinds |-> [solid |-> <<>>, dynamic |-> <<>>]]
    /\ calls = 0
    /\ h_gone = {}

Init ==
    /\ m_tris = FixtureTris
    /\ m_edges = FixtureEdges
    /\ \E S \in SolidSets :
          m_masses = [v \in FixtureVerts |-> IF v \in S THEN PosInf ELSE One]
    /\ m_positions = [v \in FixtureVerts |-> RInt(v)]
    /\ m_velocities \in VelocityFields
    /\ dt = One
    /\ m_newpositions =
          [v \in FixtureVerts |-> RAdd(m_positions[v], RMul(dt, m_velocities[v]))]
    /\ coll \in {c \in SUBSET Watched : Cardinality(c) <= MaxColl}
    /\ turns = 0
    /\ bp_slack \in BOOLEAN
    /\ PipelineIdle
    /\ m_aabb_padding = Zero
    /\ bp_continuous = TRUE
    /\ isect = {}
    /\ use_new_positions = FALSE
    /\ AuditIdle
    /\ TrackerIdle
    /\ m_collision_safety = TRUE
    /\ PincherIdle
    /\ near = <<>>
    /\ GridIdle
    /\ collisions = <<>>

Next ==
    \/ handle_collisions_begin
    \/ dynamic_point_vs_solid_triangle_collisions
    \/ dynamic_triangle_vs_all_point_collisions
    \/ dynamic_edge_vs_all_edge_collisions
    \/ process_collision_candidates_step
    \/ process_collision_candidates_exit
    \/ handle_collisions_pass_end
    \/ handle_collisions_return

Spec == Init /\ [][Next]_vars

(***************************************************************************)
(* Properties of the collision pipeline.                                   *)
(***************************************************************************)
\* a pair detect_* refuses to test: both sides solid
BothSolid(k) ==
    IF k[3] = 0 THEN triangle_is_solid(k[1]) /\ vertex_is_solid(k[2])
    ELSE edge_is_solid(k[1]) /\ edge_is_solid(k[2])

Returned == pc = "done"

KinematicsAsAtCall ==
    /\ m_velocities = h_pre.velocities
    /\ m_newpositions = h_pre.newpositions

\* C1: handle_collisions returns false on overflow, and when it has returned
\* true no non-incident pair that is not solid on both sides collides under
\* CCD between x and x'.
C1_TrueMeansCollisionFree ==
    /\ (Returned /\ status.overflow) => ret = "false"
    /\ ret = "true" => \A k \in AllPairs : ~BothSolid(k) => k \notin coll

\* the case of C1 that fails: true returned while a pair with a dynamic vertex
\* collides, the x' of a solid vertex of that pair having been overwritten
C1_Reached ==
    /\ ret = "true"
    /\ \E k \in coll : ~BothSolid(k) /\ k \notin h_pre.coll

\* C2: the velocity and the predicted position of a solid vertex are, at every
\* point of handle_collisions, exactly what they were when it was called.
C2_SolidVerticesUntouched ==
    \A v \in Verts :
        vertex_is_solid(v) =>
            /\ m_velocities[v] = h_pre.velocities[v]
            /\ m_newpositions[v] = h_pre.newpositions[v]

\* C5: when no pair that is tested collides at the call, handle_collisions
\* leaves every velocity and predicted position as it was and returns true.
C5_NoCollisionIsNoOp ==
    (\A k \in h_pre.coll : BothSolid(k)) =>
        /\ KinematicsAsAtCall
        /\ Returned => ret = "true"

\* handle_collisions returned with dynamic vertices in motion and nothing
\* in contact
C5_Reached ==
    /\ Returned
    /\ \A k \in h_pre.coll : BothSolid(k)
    /\ \E v \in Verts : ~vertex_is_solid(v) /\ m_velocities[v] # Zero

\* C9 as stated: once status.overflow is set no further candidate is tested
\* and no further impulse is applied.
C9_OverflowAbortsPass ==
    h_log.kind # "none" => ~h_log.overflow_before

\* C9 as the code has it: status.overflow is set only by a hit that finds
\* more than MAX_CANDIDATES entries in new_candidates; from then on hits
\* enqueue nothing, though candidates are still tested and impulses still
\* applied; and handle_collisions then returns false.
C9_OverflowStopsEnqueueing ==
    /\ (h_log.kind = "hit" /\ status.overflow) => h_log.enqueued = 0
    /\ (h_log.kind = "hit" /\ ~h_log.overflow_before /\ status.overflow) =>
           Len(update_collision_candidates) > MAX_CANDIDATES
    /\ (h_log.kind = "miss") => (status.overflow <=> h_log.overflow_before)
    /\ (Returned /\ status.overflow) => ret = "false"

\* an impulse was applied with status.overflow already set
C9_Reached ==
    /\ h_log.kind = "hit"
    /\ h_log.overflow_before

\* no list of a main-pass call is longer than the primitive tables
MaxList == Size(m_tris) + Size(m_edges) + Size(m_masses)

\* the sorted, duplicate-free list of the wind-down is no longer than this
MaxUnique == Size(m_tris) * Size(m_masses) + Size(m_edges) * Size(m_edges)

\* the primitives the loop of the phase runs over
LoopSize ==
    IF pc = "point" THEN Size(m_masses)
    ELSE IF pc = "tri" THEN Size(m_tris)
    ELSE Size(m_edges)

\* a natural number that every step of handle_collisions makes smaller
C10_Variant ==
    LET W == 5 * MaxList + 3
        B == (MaxList + 2) * W
        P == 5 * MaxUnique + 3
        left == max_iteration - iter_i
        rank == IF pc = "point" THEN 2 ELSE IF pc = "tri" THEN 1 ELSE 0
    IN  IF pc = "done" THEN 0
        ELSE IF pc = "winddown" THEN 2 + left
        ELSE IF pc = "pass_end" THEN P
        ELSE IF pc = "idle" THEN P + 1 + 3 * B
        ELSE P + 1 + rank * B + (LoopSize - loop_i) * W
               + (IF proc THEN 1 + left ELSE W - 1)

\* C10: process_collision_candidates makes at most 5 n trips round its loop,
\* n the size of the list on entry, in the wind-down too where the list
\* grows; when the wind-down stops at the cap with candidates left it reports
\* all_candidates_processed = false and handle_collisions returns false; and
\* handle_collisions terminates, every step making the variant smaller.
C10_Inv ==
    /\ C10_Variant >= 0
    /\ h_entry.trips <= 5 * h_entry.n
    /\ iter_i = h_entry.trips
    /\ (Returned /\ h_entry.n > 0 /\ h_entry.trips = 5 * h_entry.n
           /\ update_collision_candidates # <<>>) =>
          (~status.all_candidates_processed /\ ret = "false")

C10_IterationCap == [](C10_Inv) /\ [][C10_Variant' < C10_Variant]_vars

\* the wind-down stopped at its cap with candidates left
C10_Reached ==
    /\ Returned
    /\ h_entry.n > 0
    /\ h_entry.trips = 5 * h_entry.n
    /\ update_collision_candidates # <<>>


(***************************************************************************)
(* The intersection audit.  Geometry is one coordinate per vertex, a box   *)
(* is an interval <<low, high>>, and segment_triangle_intersection is      *)
(* answered from isect, which holds only pairs whose extents meet in the   *)
(* audited configuration.                                                  *)
(***************************************************************************)
RLe(a, b) == ~RLt(b, a)

Low(xs, S) == CHOOSE a \in {xs[v] : v \in S} : \A w \in S : RLe(a, xs[w])

High(xs, S) == CHOOSE a \in {xs[v] : v \in S} : \A w \in S : RLe(xs[w], a)

BoxesOverlap(a, b) == RLe(a[1], b[2]) /\ RLe(b[1], a[2])

Padded(lo, hi) == <<RSub(lo, m_aabb_padding), RAdd(hi, m_aabb_padding)>>

\* DynamicSurface::triangle_static_bounds: the box of the triangle at x
triangle_static_bounds(t) ==
    Padded(Low(m_positions, TriVerts(t)), High(m_positions, TriVerts(t)))

\* DynamicSurface::edge_static_bounds and edge_continuous_bounds
edge_static_bounds(e) ==
    Padded(Low(m_positions, EdgeVerts(e)), High(m_positions, EdgeVerts(e)))

edge_continuous_bounds(e) ==
    Padded(RMin(Low(m_positions, EdgeVerts(e)), Low(m_newpositions, EdgeVerts(e))),
           RMax(High(m_positions, EdgeVerts(e)), High(m_newpositions, EdgeVerts(e))))

\* the box the grid holds for edge e since the last update_broad_phase
get_edge_aabb(e) ==
    IF bp_continuous THEN edge_continuous_bounds(e) ELSE edge_static_bounds(e)

\* AccelerationGrid::find_overlapping_elements on an edge grid: every edge of
\* the grid whose box meets the query box, and any other when cells are coarse
find_overlapping_edges(box, solid_grid) ==
    SetToSeq({e \in DOMAIN m_edges :
                /\ ~EdgeIsDead(e)
                /\ edge_is_solid(e) = solid_grid
                /\ (bp_slack \/ BoxesOverlap(get_edge_aabb(e), box))})

\* BroadPhaseGrid::get_potential_edge_collisions with a query box
get_potential_edge_collisions_box(box, return_solid, return_dynamic) ==
    (IF return_solid THEN find_overlapping_edges(box, TRUE) ELSE <<>>)
    \o
    (IF return_dynamic THEN find_overlapping_edges(box, FALSE) ELSE <<>>)

\* the positions the audit reads
AuditedPositions == IF use_new_positions THEN m_newpositions ELSE m_positions

\* the static test on the audited configuration, by vertex indices
segment_triangle_intersection(edge, triangle) ==
    <<{edge[1], edge[2]}, {triangle[1], triangle[2], triangle[3]}>> \in isect

\* what the static test can answer positive for: extents that meet
Meets(xs, ev, tv) ==
    BoxesOverlap(<<Low(xs, ev), High(xs, ev)>>, <<Low(xs, tv), High(xs, tv)>>)

\* lines 1790-1794: the edge and the triangle share a vertex
Mut_EdgeTouchesTriangle(edge, triangle) ==
    \/ edge[1] = triangle[1] \/ edge[1] = triangle[2] \/ edge[1] = triangle[3]

EdgeTouchesTriangle(edge, triangle) ==
    \/ edge[1] = triangle[1] \/ edge[1] = triangle[2] \/ edge[1] = triangle[3]
    \/ edge[2] = triangle[1] \/ edge[2] = triangle[2] \/ edge[2] = triangle[3]

\* the loop over edge_candidates for triangle i: the intersections pushed
RECURSIVE ScanEdgeCandidates(_, _)
ScanEdgeCandidates(i, edge_candidates) ==
    IF edge_candidates = <<>> THEN <<>>
    ELSE (IF m_edges[Head(edge_candidates)][1] = m_edges[Head(edge_candidates)][2]
          THEN <<>>
          ELSE IF EdgeTouchesTriangle(m_edges[Head(edge_candidates)], m_tris[i])
          THEN <<>>
          ELSE IF segment_triangle_intersection(m_edges[Head(edge_candidates)],
                                                m_tris[i])
          THEN <<[m_edge_index |-> Head(edge_candidates), m_triangle_index |-> i]>>
          ELSE <<>>)
         \o ScanEdgeCandidates(i, Tail(edge_candidates))

TriangleIsDegenerate(triangle) ==
    \/ triangle[1] = triangle[2]
    \/ triangle[2] = triangle[3]
    \/ triangle[3] = triangle[1]

get_intersections_begin ==
    /\ audit_pc = "idle"
    /\ audit_pc' = "scan"
    /\ audit_i' = 0
    /\ intersections' = <<>>
    /\ UNCHANGED <<m_aabb_padding, bp_continuous, isect, use_new_positions, by_index>>
    /\ UNCHANGED <<meshVars, kinVars, oracleVars, pipeVars, histVars, trackerVars, pincherVars,
                   extraVars>>

\* one trip of the loop over the triangles
get_intersections_triangle ==
    /\ audit_pc = "scan"
    /\ audit_i < Size(m_tris)
    /\ intersections' =
          IF TriangleIsDegenerate(m_tris[audit_i]) THEN intersections
          ELSE intersections \o
               ScanEdgeCandidates(audit_i,
                   get_potential_edge_collisions_box(triangle_static_bounds(audit_i),
                                                     ~triangle_is_solid(audit_i), TRUE))
    /\ audit_i' = audit_i + 1
    /\ UNCHANGED <<m_aabb_padding, bp_continuous, isect, use_new_positions, by_index,
                   audit_pc>>
    /\ UNCHANGED <<meshVars, kinVars, oracleVars, pipeVars, histVars, trackerVars, pincherVars,
                   extraVars>>

get_intersections_return ==
    /\ audit_pc = "scan"
    /\ audit_i >= Size(m_tris)
    /\ audit_pc' = "done"
    /\ UNCHANGED <<m_aabb_padding, bp_continuous, isect, use_new_positions, by_index,
                   audit_i, intersections>>
    /\ UNCHANGED <<meshVars, kinVars, oracleVars, pipeVars, histVars, trackerVars, pincherVars,
                   extraVars>>

\* lines 37-41: the early return for an edge and a triangle sharing an index
check_edge_triangle_intersection_by_index(edge_a, edge_b, triangle_a, triangle_b, triangle_c) ==
    IF \/ edge_a = triangle_a \/ edge_a = triangle_b \/ edge_a = triangle_c
       \/ edge_b = triangle_a \/ edge_b = triangle_b \/ edge_b = triangle_c
    THEN FALSE
    ELSE segment_triangle_intersection(<<edge_a, edge_b>>,
                                       <<triangle_a, triangle_b, triangle_c>>)

\* a caller tests an edge of the mesh against a triangle of the mesh
check_by_index ==
    /\ audit_pc \in {"idle", "done"}
    /\ ~by_index.called
    /\ \E e \in DOMAIN m_edges, t \in DOMAIN m_tris :
          /\ ~EdgeIsDead(e)
          /\ ~TriIsDead(t)
          /\ by_index' =
                [called |-> TRUE, edge |-> m_edges[e], triangle |-> m_tris[t],
                 result |-> check_edge_triangle_intersection_by_index(
                                m_edges[e][1], m_edges[e][2],
                                m_tris[t][1], m_tris[t][2], m_tris[t][3])]
    /\ UNCHANGED <<m_aabb_padding, bp_continuous, isect, use_new_positions,
                   audit_pc, audit_i, intersections>>
    /\ UNCHANGED <<meshVars, kinVars, oracleVars, pipeVars, histVars, trackerVars, pincherVars,
                   extraVars>>

(***************************************************************************)
(* Initial states of the audit: the two triangles, or the same with a      *)
(* removed slot in each table; flat or folded over each other; x' from a   *)
(* displacement field; grids static or continuous.                         *)
(***************************************************************************)
HoleTris == (0 :> <<0, 1, 2>>) @@ (1 :> <<0, 0, 0>>) @@ (2 :> <<2, 3, 4>>)

HoleEdges ==
    (0 :> <<0, 1>>) @@ (1 :> <<1, 2>>) @@ (2 :> <<2, 0>>) @@ (3 :> <<0, 0>>) @@
    (4 :> <<2, 3>>) @@ (5 :> <<3, 4>>) @@ (6 :> <<4, 2>>)

\* the third mesh has a triangle built outside the library with two equal slots
AuditMeshes ==
    {[tris |-> FixtureTris, edges |-> FixtureEdges],
     [tris |-> HoleTris, edges |-> HoleEdges],
     [tris |-> (0 :> <<0, 1, 2>>) @@ (1 :> <<2, 3, 3>>),
      edges |-> (0 :> <<0, 1>>) @@ (1 :> <<1, 2>>) @@ (2 :> <<2, 0>>) @@ (3 :> <<2, 3>>)]}

AuditSolidSets == {{}, {0, 1, 2}, {0, 1, 2, 3, 4}}

AuditPositions ==
    {[v \in FixtureVerts |-> RInt(v)],
     [v \in FixtureVerts |-> RInt(IF v < 3 THEN v ELSE 4 - v)]}

AuditDisplacements ==
    {[v \in FixtureVerts |-> Zero],
     [v \in FixtureVerts |-> IF v < 2 THEN One ELSE IF v = 2 THEN Zero ELSE RInt(-1)],
     [v \in FixtureVerts |-> IF v < 2 THEN RInt(3) ELSE Zero]}

\* the pairs the static test may answer positive for
AuditWatched ==
    {<<{3, 4}, {0, 1, 2}>>, <<{0, 1}, {2, 3, 4}>>,
     <<{2, 3}, {0, 1, 2}>>, <<{1, 2}, {2, 3, 4}>>}

AuditInit ==
    /\ \E mesh \in AuditMeshes : m_tris = mesh.tris /\ m_edges = mesh.edges
    /\ \E S \in AuditSolidSets :
          m_masses = [v \in FixtureVerts |-> IF v \in S THEN PosInf ELSE One]
    /\ m_positions \in AuditPositions
    /\ m_velocities \in AuditDisplacements
    /\ dt = One
    /\ m_newpositions =
          [v \in FixtureVerts |-> RAdd(m_positions[v], RMul(dt, m_velocities[v]))]
    /\ coll = {}
    /\ turns = 0
    /\ bp_slack \in BOOLEAN
    /\ PipelineIdle
    /\ m_aabb_padding \in {Zero, Half}
    /\ bp_continuous \in BOOLEAN
    /\ use_new_positions \in BOOLEAN
    /\ isect \in SUBSET {k \in AuditWatched : Meets(AuditedPositions, k[1], k[2])}
    /\ AuditIdle
    /\ TrackerIdle
    /\ m_collision_safety = TRUE
    /\ PincherIdle
    /\ near = <<>>
    /\ GridIdle
    /\ collisions = <<>>

AuditNext ==
    \/ get_intersections_begin
    \/ get_intersections_triangle
    \/ get_intersections_return
    \/ check_by_index

AuditSpec == AuditInit /\ [][AuditNext]_vars

(***************************************************************************)
(* Properties of the audit.                                                *)
(***************************************************************************)
Reported == {<<intersections[k].m_edge_index, intersections[k].m_triangle_index>> :
                k \in DOMAIN intersections}

\* live, sharing no vertex, and positive in the audited configuration
LiveIntersecting ==
    {k \in (DOMAIN m_edges) \X (DOMAIN m_tris) :
        /\ ~EdgeIsDead(k[1])
        /\ ~TriIsDead(k[2])
        /\ EdgeVerts(k[1]) \cap TriVerts(k[2]) = {}
        /\ segment_triangle_intersection(m_edges[k[1]], m_tris[k[2]])}

\* C3: when get_intersections has returned, every live edge-triangle pair that
\* shares no vertex and tests positive in the audited configuration is in its
\* output, whichever positions are audited and whatever is solid.
C3_AuditReportsEveryIntersection ==
    audit_pc = "done" => LiveIntersecting \subseteq Reported

\* an audit that returned with a pair in its output
C3_Reached == audit_pc = "done" /\ Reported # {}

\* C4: no pair in the output of get_intersections shares a vertex, and
\* check_edge_triangle_intersection_by_index answers false for every edge and
\* triangle that share one.
C4_IncidentNeverReported ==
    /\ \A k \in Reported : EdgeVerts(k[1]) \cap TriVerts(k[2]) = {}
    /\ by_index.called =>
         ({by_index.edge[1], by_index.edge[2]} \cap
          {by_index.triangle[1], by_index.triangle[2], by_index.triangle[3]} # {}
            => ~by_index.result)

\* both operations met a pair that shares a vertex and that the static test
\* answers positive for
C4_Reached ==
    /\ audit_pc = "done"
    /\ \E e \in DOMAIN m_edges, t \in DOMAIN m_tris :
          /\ ~EdgeIsDead(e)
          /\ ~TriIsDead(t)
          /\ EdgeVerts(e) \cap TriVerts(t) # {}
          /\ segment_triangle_intersection(m_edges[e], m_tris[t])
    /\ by_index.called
    /\ {by_index.edge[1], by_index.edge[2]} \cap
       {by_index.triangle[1], by_index.triangle[2], by_index.triangle[3]} # {}
    /\ segment_triangle_intersection(by_index.edge, by_index.triangle)


(***************************************************************************)
(* ElTopoTracker::integrate and ElTopoTracker::step.  SurfTrack::integrate *)
(* either advects x to an accepted state and reports the dt it used, or    *)
(* reports 0 and changes nothing.                                          *)
(***************************************************************************)
\* the predicted positions V a caller passes: x displaced
TrackerTargets ==
    {[v \in FixtureVerts |-> RAdd(m_positions[v], d[v])] : d \in AuditDisplacements}

TrackerDts == {One, Half}

\* lines 133-143: copy V into verts, set_all_newpositions(verts)
integrate_set_all_newpositions ==
    /\ trk_pc = "idle"
    /\ trk_pc' = "set"
    /\ via_step' \in BOOLEAN
    /\ trk_dt' \in TrackerDts
    /\ m_newpositions' \in TrackerTargets
    /\ h_x' = m_positions
    /\ m_defrag_mesh' \in BOOLEAN
    /\ h_events' = <<"set_all_newpositions">>
    /\ UNCHANGED <<ret_dt, trk_r>>
    /\ UNCHANGED <<meshVars, m_velocities, oracleVars, pipeVars, histVars, auditVars, pincherVars, extraVars>>

\* the state SurfTrack::integrate accepts when it used the fraction f of dt
AcceptedState(f) ==
    [v \in Verts |->
        RAdd(m_positions[v], RMul(f, RSub(m_newpositions[v], m_positions[v])))]

\* line 144: m_surf->integrate( dt, ret_dt )
SurfTrack_integrate ==
    /\ trk_pc = "set"
    /\ trk_pc' = "integrated"
    /\ \/ \E f \in {One, Half} :
             /\ ret_dt' = RMul(f, trk_dt)
             /\ m_positions' = AcceptedState(f)
             /\ m_newpositions' = AcceptedState(f)
       \/ /\ ret_dt' = Zero
          /\ UNCHANGED <<m_positions, m_newpositions>>
    /\ h_events' = Append(h_events, "integrate")
    /\ UNCHANGED <<via_step, trk_dt, trk_r, h_x, m_defrag_mesh>>
    /\ UNCHANGED <<m_tris, m_edges, m_masses, m_velocities, oracleVars, pipeVars,
                   histVars, auditVars, pincherVars, extraVars>>

\* DynamicSurface::set_positions_to_newpositions
set_positions_to_newpositions == m_newpositions

\* lines 145-146 and, within step, line 128
integrate_return ==
    /\ trk_pc = "integrated"
    /\ m_positions' = set_positions_to_newpositions
    /\ IF via_step
       THEN trk_pc' = "improve" /\ trk_r' = trk_r
       ELSE trk_pc' = "returned" /\ trk_r' = ret_dt
    /\ h_events' = Append(h_events, "set_positions_to_newpositions")
    /\ UNCHANGED <<via_step, trk_dt, ret_dt, h_x, m_defrag_mesh>>
    /\ UNCHANGED <<m_tris, m_edges, m_masses, kinVars, oracleVars, pipeVars,
                   histVars, auditVars, pincherVars, extraVars>>

\* the smoother of improve_mesh may move a vertex towards its neighbours
Smoothed == [m_positions EXCEPT ![3] = RMul(Half, RAdd(m_positions[2], m_positions[4]))]

\* what no step of improve() touches
ImproveFrame ==
    UNCHANGED <<via_step, trk_dt, ret_dt, h_x, m_defrag_mesh, m_tris, m_edges, m_masses,
                kinVars, oracleVars, pipeVars, histVars, auditVars, pincherVars,
                extraVars>>

\* line 120: m_surf->improve_mesh()
improve ==
    /\ trk_pc = "improve"
    /\ trk_pc' = "topology"
    /\ m_positions' \in {m_positions, Smoothed}
    /\ h_events' = Append(h_events, "improve_mesh")
    /\ trk_r' = trk_r
    /\ ImproveFrame

\* an improve() that never defragments
Mut_topology_changes ==
    /\ trk_pc = "topology"
    /\ trk_pc' = "returned"
    /\ trk_r' = ret_dt
    /\ h_events' = Append(h_events, "topology_changes")
    /\ UNCHANGED m_positions
    /\ ImproveFrame

\* line 122: m_surf->topology_changes(); with m_defrag_mesh off, improve() and
\* step return (line 130)
topology_changes ==
    /\ trk_pc = "topology"
    /\ IF m_defrag_mesh
       THEN trk_pc' = "defrag" /\ trk_r' = trk_r
       ELSE trk_pc' = "returned" /\ trk_r' = ret_dt
    /\ h_events' = Append(h_events, "topology_changes")
    /\ UNCHANGED m_positions
    /\ ImproveFrame

\* line 123: if(m_defrag_mesh) defrag_mesh(); then step returns r
defrag_mesh ==
    /\ trk_pc = "defrag"
    /\ trk_pc' = "returned"
    /\ trk_r' = ret_dt
    /\ h_events' = Append(h_events, "defrag_mesh")
    /\ UNCHANGED m_positions
    /\ ImproveFrame

TrackerInit ==
    /\ m_tris = FixtureTris
    /\ m_edges = FixtureEdges
    /\ m_masses = [v \in FixtureVerts |-> One]
    /\ m_positions \in AuditPositions
    /\ m_velocities = [v \in FixtureVerts |-> Zero]
    /\ dt = One
    /\ m_newpositions = m_positions
    /\ coll = {}
    /\ turns = 0
    /\ bp_slack = FALSE
    /\ PipelineIdle
    /\ m_aabb_padding = Zero
    /\ bp_continuous = FALSE
    /\ use_new_positions = FALSE
    /\ isect = {}
    /\ AuditIdle
    /\ TrackerIdle
    /\ m_collision_safety = TRUE
    /\ PincherIdle
    /\ near = <<>>
    /\ GridIdle
    /\ collisions = <<>>

TrackerNext ==
    \/ integrate_set_all_newpositions
    \/ SurfTrack_integrate
    \/ integrate_return
    \/ improve
    \/ topology_changes
    \/ defrag_mesh

TrackerSpec == TrackerInit /\ [][TrackerNext]_vars

(***************************************************************************)
(* Properties of the tracker.                                              *)
(***************************************************************************)
\* C6: a call of ElTopoTracker::integrate or step that returns 0 has changed
\* no vertex position, and one that returns a nonzero value returns the dt the
\* surface used.
C6_FailedStepChangesNothing ==
    trk_pc = "returned" =>
        /\ trk_r = ret_dt
        /\ trk_r = Zero => m_positions = h_x

\* a call that returned 0 after the caller asked for a displacement
C6_Reached == trk_pc = "returned" /\ trk_r = Zero /\ m_newpositions # h_x


(***************************************************************************)
(* MeshPincher.  The mesh operations of NonDestructiveTriMesh append to    *)
(* the tables and mark removed slots; they never shrink a table.           *)
(***************************************************************************)
\* NonDestructiveTriMesh::triangles_are_adjacent: the two share an edge
triangles_are_adjacent(ta, tb) ==
    \E e \in DOMAIN m_edges :
        /\ ~EdgeIsDead(e)
        /\ EdgeVerts(e) \subseteq TriVerts(ta)
        /\ EdgeVerts(e) \subseteq TriVerts(tb)

Last(q) == q[Len(q)]

Front(q) == SubSeq(q, 1, Len(q) - 1)

\* erase( find( begin, end, x ) )
RECURSIVE Erase(_, _)
Erase(q, x) ==
    IF q = <<>> THEN <<>>
    ELSE IF Head(q) = x THEN Tail(q)
    ELSE <<Head(q)>> \o Erase(Tail(q), x)

\* a scan that finds no triangle adjacent to curr_tri
Mut_PushAdjacent(unvisited_triangles, visited_triangles, incident, curr_tri, i) == unvisited_triangles

\* lines 77-94: the triangles adjacent to curr_tri pushed on unvisited_triangles
RECURSIVE PushAdjacent(_, _, _, _, _)
PushAdjacent(unvisited_triangles, visited_triangles, incident, curr_tri, i) ==
    IF i > Len(incident) THEN unvisited_triangles
    ELSE PushAdjacent(
            IF /\ curr_tri # incident[i]
               /\ triangles_are_adjacent(curr_tri, incident[i])
               /\ incident[i] \notin Range(unvisited_triangles)
               /\ incident[i] \notin Range(visited_triangles)
            THEN Append(unvisited_triangles, incident[i])
            ELSE unvisited_triangles,
            visited_triangles, incident, curr_tri, i + 1)

\* lines 64-95: the inner while loop, one component
RECURSIVE VisitComponent(_, _, _)
VisitComponent(unvisited_triangles, visited_triangles, incident) ==
    IF unvisited_triangles = <<>>
    THEN [visited |-> visited_triangles, incident |-> incident]
    ELSE VisitComponent(
            PushAdjacent(Front(unvisited_triangles),
                         Append(visited_triangles, Last(unvisited_triangles)),
                         Erase(incident, Last(unvisited_triangles)),
                         Last(unvisited_triangles), 1),
            Append(visited_triangles, Last(unvisited_triangles)),
            Erase(incident, Last(unvisited_triangles)))

\* lines 58-100: the outer while loop
RECURSIVE PartitionLoop(_, _)
PartitionLoop(triangles_incident_to_vertex, connected_components) ==
    IF triangles_incident_to_vertex = <<>> THEN connected_components
    ELSE PartitionLoop(
            VisitComponent(<<Last(triangles_incident_to_vertex)>>, <<>>,
                           triangles_incident_to_vertex).incident,
            Append(connected_components,
                   VisitComponent(<<Last(triangles_incident_to_vertex)>>, <<>>,
                                  triangles_incident_to_vertex).visited))

partition_vertex_neighbourhood(vertex_index) ==
    PartitionLoop(m_vertex_to_triangle_map(vertex_index), <<>>)

\* the live edge joining a and b, if any
EdgeExists(edges, a, b) ==
    \E e \in DOMAIN edges : edges[e][1] # edges[e][2] /\ {edges[e][1], edges[e][2]} = {a, b}

AddEdge(edges, a, b) ==
    IF EdgeExists(edges, a, b) THEN edges ELSE PushBack(edges, <<a, b>>)

\* SurfTrack::add_triangle: a new slot, and the edges that did not exist
add_triangle(mesh, tri) ==
    [tris |-> PushBack(mesh.tris, tri),
     edges |-> AddEdge(AddEdge(AddEdge(mesh.edges, tri[1], tri[2]), tri[2], tri[3]),
                       tri[3], tri[1])]

\* SurfTrack::remove_triangle: the slot is marked, and so is every edge that
\* no other triangle has
remove_triangle(mesh, t) ==
    [tris |-> [mesh.tris EXCEPT ![t] = <<0, 0, 0>>],
     edges |-> [e \in DOMAIN mesh.edges |->
                 IF /\ {mesh.edges[e][1], mesh.edges[e][2]} \subseteq
                        {mesh.tris[t][1], mesh.tris[t][2], mesh.tris[t][3]}
                    /\ \A u \in DOMAIN mesh.tris :
                          u # t =>
                          ~({mesh.edges[e][1], mesh.edges[e][2]} \subseteq
                            {mesh.tris[u][1], mesh.tris[u][2], mesh.tris[u][3]})
                 THEN <<0, 0>>
                 ELSE mesh.edges[e]]]

\* lines 225-228
RECURSIVE AddTriangles(_, _)
AddTriangles(mesh, triangles_to_add) ==
    IF triangles_to_add = <<>> THEN mesh
    ELSE AddTriangles(add_triangle(mesh, Head(triangles_to_add)), Tail(triangles_to_add))

\* a commit that removes no triangle
Mut_RemoveTriangles(mesh, triangles_to_delete) == mesh

\* lines 230-233
RECURSIVE RemoveTriangles(_, _)
RemoveTriangles(mesh, triangles_to_delete) ==
    IF triangles_to_delete = <<>> THEN mesh
    ELSE RemoveTriangles(remove_triangle(mesh, Head(triangles_to_delete)),
                         Tail(triangles_to_delete))

m_proximity_epsilon == <<1, 10000>>

\* line 111: dx = 10.0 * m_proximity_epsilon
PullDx == RMul(RInt(10), m_proximity_epsilon)

\* line 118: one duplicate for each connected component except the last one
Mut_NumDuplicates(connected_components) == Len(connected_components) - 2

NumDuplicates(connected_components) == Len(connected_components) - 1

\* lines 131-144: the triangle with vertex_index replaced by the duplicate
Mut_NewTriangle(t, vertex_index, duplicate_vertex_index) ==
    [v \in 1..3 |-> IF m_tris[t][v] >= vertex_index THEN duplicate_vertex_index
                    ELSE m_tris[t][v]]

NewTriangle(t, vertex_index, duplicate_vertex_index) ==
    [v \in 1..3 |-> IF m_tris[t][v] = vertex_index THEN duplicate_vertex_index
                    ELSE m_tris[t][v]]

\* lines 139-142: what one triangle adds to centroid
OthersSum(t, vertex_index) ==
    RAdd(RAdd(IF m_tris[t][1] = vertex_index THEN Zero ELSE m_positions[m_tris[t][1]],
              IF m_tris[t][2] = vertex_index THEN Zero ELSE m_positions[m_tris[t][2]]),
         IF m_tris[t][3] = vertex_index THEN Zero ELSE m_positions[m_tris[t][3]])

RECURSIVE CentroidSum(_, _)
CentroidSum(component, vertex_index) ==
    IF component = <<>> THEN Zero
    ELSE RAdd(OthersSum(Head(component), vertex_index),
              CentroidSum(Tail(component), vertex_index))

\* lines 150-154: (1 - dx) * position + dx * centroid
AddedVertexPosition(component, vertex_index) ==
    RAdd(RMul(RSub(One, PullDx), m_positions[vertex_index]),
         RMul(PullDx, RDiv(CentroidSum(component, vertex_index),
                           RInt(Len(component) * 2))))

\* new triangles that all hang on the first duplicate
RECURSIVE Mut_TrianglesToAdd(_, _, _, _)
Mut_TrianglesToAdd(connected_components, vertex_index, i, n) ==
    IF i > n THEN <<>>
    ELSE [t \in 1..Len(connected_components[i]) |->
             NewTriangle(connected_components[i][t], vertex_index, Size(m_positions))]
         \o Mut_TrianglesToAdd(connected_components, vertex_index, i + 1, n)

\* the triangles the loop of line 118 pushes for components i .. n
RECURSIVE TrianglesToAdd(_, _, _, _)
TrianglesToAdd(connected_components, vertex_index, i, n) ==
    IF i > n THEN <<>>
    ELSE [t \in 1..Len(connected_components[i]) |->
             NewTriangle(connected_components[i][t], vertex_index,
                         Size(m_positions) + i - 1)]
         \o TrianglesToAdd(connected_components, vertex_index, i + 1, n)

\* DynamicSurface::add_vertex n times, then set_position and set_newposition
AddVertices(xs, connected_components, vertex_index, n) ==
    [v \in 0..(Size(xs) + n - 1) |->
        IF v < Size(xs) THEN xs[v]
        ELSE AddedVertexPosition(connected_components[v - Size(xs) + 1], vertex_index)]

\* lines 109-157 of pull_apart_vertex: the duplicates and the new triangles
pull_apart_vertex_duplicate ==
    /\ pinch_pc = "pull"
    /\ pinch_pc' = "check"
    /\ pull' =
          [pull EXCEPT
             !.triangles_to_add =
                 TrianglesToAdd(pull.connected_components, pull.vertex_index, 1,
                                NumDuplicates(pull.connected_components)),
             !.triangles_to_delete =
                 Concat(SubSeq(pull.connected_components, 1,
                               NumDuplicates(pull.connected_components))),
             !.vertices_added =
                 [i \in 1..NumDuplicates(pull.connected_components) |->
                     Size(m_positions) + i - 1]]
    /\ m_positions' =
          AddVertices(m_positions, pull.connected_components, pull.vertex_index,
                      NumDuplicates(pull.connected_components))
    /\ m_newpositions' =
          AddVertices(m_newpositions, pull.connected_components, pull.vertex_index,
                      NumDuplicates(pull.connected_components))
    /\ m_masses' =
          [v \in DOMAIN m_positions' |->
              IF v \in DOMAIN m_masses THEN m_masses[v] ELSE m_masses[pull.vertex_index]]
    /\ m_velocities' =
          [v \in DOMAIN m_positions' |->
              IF v \in DOMAIN m_velocities THEN m_velocities[v] ELSE Zero]
    /\ bp_vertex' =
          [v \in DOMAIN bp_vertex \cup (DOMAIN m_positions' \ DOMAIN m_positions) |->
              IF v \in DOMAIN bp_vertex THEN bp_vertex[v]
              ELSE m_positions[pull.vertex_index]]
    /\ UNCHANGED <<m_tris, m_edges, m_collision_safety, pinch_i, pull_ret, h_rejected,
                   h_before, h_pass>>
    /\ UNCHANGED <<oracleVars, pipeVars, histVars, auditVars, trackerVars, extraVars>>

\* lines 212-215: the vertices remove_vertex is called for
Mut_VerticesRemoved(vertices_added) == Range(Tail(vertices_added))

VerticesRemoved(vertices_added) == Range(vertices_added)

\* lines 162-248 of pull_apart_vertex: the collision check, then either the
\* added vertices are removed or the triangles are exchanged
pull_apart_vertex_finish ==
    /\ pinch_pc = "check"
    /\ pinch_pc' = "loop"
    /\ pinch_i' = pinch_i + 1
    /\ \E collision_occurs \in (IF m_collision_safety THEN BOOLEAN ELSE {FALSE}) :
          IF collision_occurs
          THEN /\ bp_vertex' =
                     [v \in DOMAIN bp_vertex \ VerticesRemoved(pull.vertices_added) |->
                         bp_vertex[v]]
               /\ pull_ret' = "false"
               /\ h_rejected' = TRUE
               /\ UNCHANGED <<m_tris, m_edges>>
          ELSE /\ m_tris' =
                     RemoveTriangles(
                         AddTriangles([tris |-> m_tris, edges |-> m_edges],
                                      pull.triangles_to_add),
                         pull.triangles_to_delete).tris
               /\ m_edges' =
                     RemoveTriangles(
                         AddTriangles([tris |-> m_tris, edges |-> m_edges],
                                      pull.triangles_to_add),
                         pull.triangles_to_delete).edges
               /\ pull_ret' = "true"
               /\ UNCHANGED <<bp_vertex, h_rejected>>
    /\ UNCHANGED <<m_masses, m_positions, kinVars, m_collision_safety, pull, h_before,
                   h_pass>>
    /\ UNCHANGED <<oracleVars, pipeVars, histVars, auditVars, trackerVars, extraVars>>

process_mesh_begin ==
    /\ pinch_pc = "idle"
    /\ pinch_pc' = "loop"
    /\ pinch_i' = 0
    /\ h_pass' = [NoPass EXCEPT !.num_vertices = Size(m_positions)]
    /\ UNCHANGED <<m_collision_safety, bp_vertex, pull, pull_ret, h_rejected, h_before>>
    /\ UNCHANGED <<meshVars, kinVars, oracleVars, pipeVars, histVars, auditVars,
                   trackerVars, extraVars>>

\* lines 260-269: one trip of the loop up to the call of pull_apart_vertex
process_mesh_vertex ==
    /\ pinch_pc = "loop"
    /\ pinch_i < Size(m_positions)
    /\ pull_ret' = "none"
    /\ IF Len(partition_vertex_neighbourhood(pinch_i)) > 1
       THEN /\ pinch_pc' = "pull"
            /\ pull' = [NoPull EXCEPT
                          !.vertex_index = pinch_i,
                          !.connected_components =
                              partition_vertex_neighbourhood(pinch_i)]
            /\ h_before' = Surface
            /\ pinch_i' = pinch_i
            /\ h_pass' = [h_pass EXCEPT !.examined = Append(@, pinch_i),
                                         !.pulled = @ \cup {pinch_i}]
       ELSE /\ pinch_i' = pinch_i + 1
            /\ h_pass' = [h_pass EXCEPT !.examined = Append(@, pinch_i)]
            /\ UNCHANGED <<pinch_pc, pull, h_before>>
    /\ UNCHANGED <<m_collision_safety, bp_vertex, h_rejected>>
    /\ UNCHANGED <<meshVars, kinVars, oracleVars, pipeVars, histVars, auditVars,
                   trackerVars, extraVars>>

process_mesh_return ==
    /\ pinch_pc = "loop"
    /\ pinch_i >= Size(m_positions)
    /\ pinch_pc' = "done"
    /\ UNCHANGED <<m_collision_safety, bp_vertex, pinch_i, pull, pull_ret, h_rejected,
                   h_before, h_pass>>
    /\ UNCHANGED <<meshVars, kinVars, oracleVars, pipeVars, histVars, auditVars,
                   trackerVars, extraVars>>

(***************************************************************************)
(* Initial states of the pincher: meshes built by add_triangle, with one   *)
(* pinched vertex, one with three components, three pinched vertices in a  *)
(* ring, a fan next to a lone triangle (in both orders of creation), and  *)
(* no pinched vertex.                                                      *)
(***************************************************************************)
PinchTriangleLists ==
    {<<<<0, 1, 2>>, <<2, 3, 4>>>>,
     <<<<0, 1, 2>>, <<2, 3, 4>>, <<2, 5, 6>>>>,
     <<<<0, 1, 2>>, <<2, 3, 4>>, <<4, 5, 0>>>>,
     <<<<0, 1, 2>>, <<1, 3, 2>>, <<2, 4, 5>>>>,
     <<<<2, 4, 5>>, <<0, 1, 2>>, <<1, 3, 2>>, <<4, 5, 6>>>>,
     <<<<0, 1, 2>>, <<1, 3, 2>>>>}

PinchVerts(list) ==
    0..(CHOOSE n \in 0..6 :
          /\ \E k \in DOMAIN list : n \in {list[k][1], list[k][2], list[k][3]}
          /\ \A k \in DOMAIN list : \A j \in 1..3 : list[k][j] <= n)

PinchSpacings == {1, 2}

PincherInit ==
    /\ \E list \in PinchTriangleLists :
          /\ m_tris = AddTriangles([tris |-> <<>>, edges |-> <<>>], list).tris
          /\ m_edges = AddTriangles([tris |-> <<>>, edges |-> <<>>], list).edges
          /\ m_masses = [v \in PinchVerts(list) |-> One]
          /\ \E h \in PinchSpacings :
                m_positions = [v \in PinchVerts(list) |-> RInt(h * v)]
    /\ m_velocities = [v \in DOMAIN m_positions |-> Zero]
    /\ dt = One
    /\ m_newpositions = m_positions
    /\ coll = {}
    /\ turns = 0
    /\ bp_slack = FALSE
    /\ PipelineIdle
    /\ m_aabb_padding = Zero
    /\ bp_continuous = FALSE
    /\ use_new_positions = FALSE
    /\ isect = {}
    /\ AuditIdle
    /\ TrackerIdle
    /\ m_collision_safety \in BOOLEAN
    /\ PincherIdle
    /\ near = <<>>
    /\ GridIdle
    /\ collisions = <<>>

PincherNext ==
    \/ process_mesh_begin
    \/ process_mesh_vertex
    \/ pull_apart_vertex_duplicate
    \/ pull_apart_vertex_finish
    \/ process_mesh_return

PincherSpec == PincherInit /\ [][PincherNext]_vars

(***************************************************************************)
(* Properties of the pincher.                                              *)
(***************************************************************************)
IncidentTriangles(v) == {t \in DOMAIN m_tris : ~TriIsDead(t) /\ v \in TriVerts(t)}

\* the triangles of T reachable from S across shared edges
RECURSIVE FaceConnected(_, _)
FaceConnected(S, T) ==
    IF S = S \cup {t \in T : \E u \in S : Cardinality(TriVerts(t) \cap TriVerts(u)) >= 2}
    THEN S
    ELSE FaceConnected(
            S \cup {t \in T : \E u \in S : Cardinality(TriVerts(t) \cap TriVerts(u)) >= 2},
            T)

\* the face-connected components of the triangles incident to v
Components(v) == {FaceConnected({t}, IncidentTriangles(v)) : t \in IncidentTriangles(v)}

\* C7: after pull_apart_vertex returned false the state is the state before
\* the call, the size of the vertex table included.
C7_RejectionRestoresState == pull_ret = "false" => Surface = h_before

\* C7 as the code has it: after pull_apart_vertex returned false the triangle
\* and edge tables, the incidence maps, the grids, and the mass and positions
\* of every vertex that existed are as before the call, and the vertex table
\* is longer by one removed slot for each duplicate that was made.
C7_RejectionRestoresLiveState ==
    pull_ret = "false" =>
        /\ m_tris = h_before.tris
        /\ m_edges = h_before.edges
        /\ bp_vertex = h_before.bp_vertex
        /\ \A v \in DOMAIN h_before.positions :
              /\ m_positions[v] = h_before.positions[v]
              /\ m_newpositions[v] = h_before.newpositions[v]
              /\ m_masses[v] = h_before.masses[v]
        /\ Size(m_positions) =
              Size(h_before.positions) + Len(pull.connected_components) - 1
        /\ \A v \in DOMAIN m_positions \ DOMAIN h_before.positions :
              v \notin DOMAIN bp_vertex /\ IncidentTriangles(v) = {}

\* a rejected pull-apart
C7_Reached == pull_ret = "false" /\ Len(pull.vertices_added) >= 1

\* C8: after process_mesh without a rejection the triangles at every vertex,
\* original or duplicate, form at most one face-connected component, and no
\* pull-apart changes the number of components at another vertex.
C8_Separated ==
    (pinch_pc = "done" /\ ~h_rejected) =>
        \A v \in DOMAIN m_positions : Cardinality(Components(v)) <= 1

C8_OthersKept ==
    (pinch_pc = "check" /\ pinch_pc' = "loop" /\ pull_ret' = "true") =>
        \A w \in DOMAIN h_before.positions \ {pull.vertex_index} :
            Cardinality(Components(w))' = Cardinality(Components(w))

C8_PinchedVerticesSeparated == [](C8_Separated) /\ [][C8_OthersKept]_vars

\* process_mesh is over, nothing was rejected, and a vertex was pulled apart
C8_Reached ==
    /\ pinch_pc = "done"
    /\ ~h_rejected
    /\ \E t \in DOMAIN m_tris : TriIsDead(t)

(***************************************************************************)
(* CollisionPipeline::handle_proximities.  The three loops gather the      *)
(* candidates of every dynamic primitive into one list (loop_i = 0), then  *)
(* process_proximity_candidates empties it (loop_i = 1), one trip round    *)
(* its while loop per step.                                                *)
(***************************************************************************)
\* distance between the two primitives of the candidate at x
StaticDistance(candidate) ==
    LET key == IF candidate[3] = 1 THEN EEKey(candidate[1], candidate[2]) ELSE candidate
    IN  IF key \in DOMAIN near THEN near[key] ELSE One

\* boxes overlap for pairs that collide and for pairs that are close
CloseOrColliding == coll \cup DOMAIN near

\* static const double k
k_stiffness == RInt(10)

\* a distance test that lets the distance m_proximity_epsilon through
Mut_WithinProximity(distance) == ~RLt(m_proximity_epsilon, distance)

\* distance < m_surface.m_proximity_epsilon
WithinProximity(distance) == RLt(distance, m_proximity_epsilon)

\* 0.1 * d / dt
SeparatingSpeed(d, dtt) == RDiv(RMul(<<1, 10>>, d), dtt)

\* an impulse without the cap dt * k * d
Mut_ProximityImpulse(d, relvel, dtt) ==
    RMax(Zero, RSub(SeparatingSpeed(d, dtt), relvel))

\* min( max( 0.0, 0.1 * d / dt - relvel ), dt * k * d )
ProximityImpulse(d, relvel, dtt) ==
    RMin(RMax(Zero, RSub(SeparatingSpeed(d, dtt), relvel)),
         RMul(RMul(dtt, k_stiffness), d))

\* the normal check_*_proximity reports: from the second primitive to the first
ProximityNormal(diff) == IF RLt(diff, Zero) THEN RInt(-1) ELSE One

\* the vertices and signed weights of a candidate that passes the incidence
\* test, for the parameters s the proximity query reports
ProximityContact(candidate, s) ==
    IF candidate[3] = 1
    THEN LET e0 == m_edges[candidate[1]]
             e1 == m_edges[candidate[2]]
         IN  [m_is_edge_edge |-> TRUE,
              m_vertex_indices |-> <<e0[1], e0[2], e1[1], e1[2]>>,
              m_barycentric_coordinates |->
                  <<s[1], RSub(One, s[1]), s[2], RSub(One, s[2])>>,
              alphas |-> <<s[1], RSub(One, s[1]), RNeg(s[2]), RNeg(RSub(One, s[2]))>>]
    ELSE LET tri == m_tris[candidate[1]]
         IN  [m_is_edge_edge |-> FALSE,
              m_vertex_indices |-> <<candidate[2], tri[1], tri[2], tri[3]>>,
              m_barycentric_coordinates |-> <<One, s[1], s[2], s[3]>>,
              alphas |-> <<One, RNeg(s[1]), RNeg(s[2]), RNeg(s[3])>>]

\* the candidate reaches the distance test
ProximityTested(candidate) ==
    IF candidate[3] = 1
    THEN LET e0 == m_edges[candidate[1]]
             e1 == m_edges[candidate[2]]
         IN  /\ e0[1] # e0[2]
             /\ e1[1] # e1[2]
             /\ e0[1] # e1[1] /\ e0[1] # e1[2] /\ e0[2] # e1[1] /\ e0[2] # e1[2]
    ELSE LET tri == m_tris[candidate[1]]
             v == candidate[2]
         IN  tri[1] # v /\ tri[2] # v /\ tri[3] # v

\* the candidate is dropped with no impulse
ProximitySkip(candidate) ==
    /\ h_log' = [kind |-> "miss", overflow_before |-> FALSE, enqueued |-> 0,
                 candidate |-> candidate]
    /\ UNCHANGED <<kinVars, coll, turns>>

\* one of the two continue statements inside the distance test
ProximityContinue(candidate, contact, normal) ==
    /\ h_log' = [kind |-> "miss", overflow_before |-> FALSE, enqueued |-> 0,
                 candidate |-> candidate, contact |-> contact, normal |-> normal]
    /\ UNCHANGED <<kinVars, coll, turns>>

\* Collision proximity(...); apply_*_impulse( proximity, impulse, dt )
ProximityApply(candidate, contact, normal, relvel, impulse) ==
    LET proximity == [m_is_edge_edge |-> contact.m_is_edge_edge,
                      m_vertex_indices |-> contact.m_vertex_indices,
                      m_normal |-> normal,
                      m_barycentric_coordinates |-> contact.m_barycentric_coordinates,
                      m_relative_displacement |-> RMul(dt, relvel)]
        res == IF contact.m_is_edge_edge
               THEN apply_edge_edge_impulse(proximity, impulse, dt)
               ELSE apply_triangle_point_impulse(proximity, impulse, dt)
        moved == {v \in Verts : res.newpositions[v] # m_newpositions[v]}
    IN  /\ m_velocities' = res.velocities
        /\ m_newpositions' = res.newpositions
        /\ coll' \in OracleNext(moved)
        /\ turns' = IF moved = {} THEN turns ELSE Min2(turns + 1, MaxTurns)
        /\ h_log' = [kind |-> "hit", overflow_before |-> FALSE, enqueued |-> 0,
                     candidate |-> candidate, contact |-> contact,
                     normal |-> normal, impulse |-> impulse]

\* the body of if (distance < m_proximity_epsilon)
ProximityRepel(candidate, contact, distance) ==
    LET diff == RelativeVelocity(contact.alphas, contact.m_vertex_indices, m_positions)
        normal == ProximityNormal(diff)
        relvel == RMul(normal, RelativeVelocity(contact.alphas,
                                                contact.m_vertex_indices, m_velocities))
        d == RSub(m_proximity_epsilon, distance)
    IN  IF RLt(RMul(normal, diff), Zero) \/ RLt(SeparatingSpeed(d, dt), relvel)
        THEN ProximityContinue(candidate, contact, normal)
        ELSE ProximityApply(candidate, contact, normal, relvel,
                            ProximityImpulse(d, relvel, dt))

InProximities == pc \in {"prox_point", "prox_tri", "prox_edge"}

process_proximity_candidates_step ==
    /\ InProximities
    /\ loop_i = 1
    /\ candidates # <<>>
    /\ candidates' = Tail(candidates)
    /\ LET candidate == Head(candidates)
       IN  IF ProximityTested(candidate) /\ WithinProximity(StaticDistance(candidate))
           THEN \E s \in (IF candidate[3] = 1 THEN EdgeBary ELSE TriBary) :
                   ProximityRepel(candidate, ProximityContact(candidate, s),
                                  StaticDistance(candidate))
           ELSE ProximitySkip(candidate)
    /\ UNCHANGED <<meshVars, bp_slack, pc, dt, loop_i, update_collision_candidates,
                   iter_i, max_iteration, status, collision_found, proc, ret,
                   h_pre, h_entry, otherVars>>

\* the list is empty: back in handle_proximities, on to its next call
process_proximity_candidates_return ==
    /\ InProximities
    /\ loop_i = 1
    /\ candidates = <<>>
    /\ pc' = CASE pc = "prox_point" -> "prox_tri"
               [] pc = "prox_tri" -> "prox_edge"
               [] pc = "prox_edge" -> "idle"
    /\ loop_i' = 0
    /\ h_log' = NoLog
    /\ UNCHANGED <<meshVars, kinVars, oracleVars, dt, candidates,
                   update_collision_candidates, iter_i, max_iteration, status,
                   collision_found, proc, ret, h_pre, h_entry, otherVars>>

\* a loop of handle_proximities has gathered list
GatherProximities(phase, list) ==
    /\ pc = phase
    /\ loop_i = 0
    /\ candidates' = list
    /\ loop_i' = 1
    /\ h_log' = NoLog
    /\ UNCHANGED <<meshVars, kinVars, oracleVars, pc, dt, update_collision_candidates,
                   iter_i, max_iteration, status, collision_found, proc, ret,
                   h_pre, h_entry, otherVars>>

dynamic_point_vs_solid_triangle_proximities ==
    GatherProximities("prox_point",
        Concat([j \in 1..Size(m_masses) |->
                  IF vertex_is_solid(j - 1) THEN <<>>
                  ELSE add_point_candidates(CloseOrColliding, j - 1, TRUE, FALSE)]))

dynamic_triangle_vs_all_point_proximities ==
    GatherProximities("prox_tri",
        Concat([j \in 1..Size(m_tris) |->
                  IF triangle_is_solid(j - 1) THEN <<>>
                  ELSE add_triangle_candidates(CloseOrColliding, j - 1, TRUE, TRUE)]))

\* a loop that gathers the candidates of solid edges too
Mut_dynamic_edge_vs_all_edge_proximities ==
    GatherProximities("prox_edge",
        Concat([j \in 1..Size(m_edges) |->
                  add_edge_candidates(CloseOrColliding, j - 1, TRUE, TRUE)]))

dynamic_edge_vs_all_edge_proximities ==
    GatherProximities("prox_edge",
        Concat([j \in 1..Size(m_edges) |->
                  IF edge_is_solid(j - 1) THEN <<>>
                  ELSE add_edge_candidates(CloseOrColliding, j - 1, TRUE, TRUE)]))

\* the distances the pairs in contact can have: closer than
\* m_proximity_epsilon, and exactly m_proximity_epsilon
NearDistances == {RMul(Half, m_proximity_epsilon), m_proximity_epsilon}

\* no pair is close, or one pair is
NearFields == {<<>>} \cup {(key :> d) : key \in Watched, d \in NearDistances}

\* the velocity fields of the pipeline, and one in which the ends move apart
ProximityVelocityFields ==
    VelocityFields \cup
    {[v \in FixtureVerts |-> IF v < 2 THEN RInt(-1) ELSE IF v = 2 THEN Zero ELSE One]}

\* integrate is about to call handle_proximities, then handle_collisions
ProximityInit ==
    /\ m_tris = FixtureTris
    /\ m_edges = FixtureEdges
    /\ \E S \in SolidSets :
          m_masses = [v \in FixtureVerts |-> IF v \in S THEN PosInf ELSE One]
    /\ m_positions = [v \in FixtureVerts |-> RInt(v)]
    /\ m_velocities \in ProximityVelocityFields
    /\ dt = One
    /\ m_newpositions =
          [v \in FixtureVerts |-> RAdd(m_positions[v], RMul(dt, m_velocities[v]))]
    /\ coll \in {c \in SUBSET Watched : Cardinality(c) <= MaxColl}
    /\ turns = MaxTurns
    /\ bp_slack \in BOOLEAN
    /\ near \in NearFields
    /\ pc = "prox_point"
    /\ loop_i = 0
    /\ candidates = <<>>
    /\ update_collision_candidates = <<>>
    /\ iter_i = 0
    /\ max_iteration = 0
    /\ status = [overflow |-> FALSE, collision_found |-> FALSE,
                 all_candidates_processed |-> FALSE]
    /\ collision_found = FALSE
    /\ proc = FALSE
    /\ ret = "none"
    /\ h_pre = [velocities |-> m_velocities, newpositions |-> m_newpositions,
                coll |-> coll]
    /\ h_entry = [n |-> 0, trips |-> 0]
    /\ h_log = NoLog
    /\ m_aabb_padding = Zero
    /\ bp_continuous = TRUE
    /\ isect = {}
    /\ use_new_positions = FALSE
    /\ AuditIdle
    /\ TrackerIdle
    /\ m_collision_safety = TRUE
    /\ PincherIdle
    /\ GridIdle
    /\ collisions = <<>>

ProximityNext ==
    \/ dynamic_point_vs_solid_triangle_proximities
    \/ dynamic_triangle_vs_all_point_proximities
    \/ dynamic_edge_vs_all_edge_proximities
    \/ process_proximity_candidates_step
    \/ process_proximity_candidates_return
    \/ handle_collisions_begin
    \/ dynamic_point_vs_solid_triangle_collisions
    \/ dynamic_triangle_vs_all_point_collisions
    \/ dynamic_edge_vs_all_edge_collisions
    \/ process_collision_candidates_step
    \/ process_collision_candidates_exit
    \/ handle_collisions_pass_end
    \/ handle_collisions_return

ProximitySpec == ProximityInit /\ [][ProximityNext]_vars

(***************************************************************************)
(* BroadPhaseGrid: six AccelerationGrids, a solid and a dynamic one for    *)
(* each kind of element.  A grid is a function from the indices it holds   *)
(* to their boxes.                                                         *)
(***************************************************************************)
MaxCalls == 3

GridIds == 0..1

GridBoxes == {<<Zero, One>>, <<RInt(2), RInt(3)>>}

\* AccelerationGrid::add_element; idx is not in the grid
add_element(grid, idx, box) == (idx :> box) @@ grid

\* AccelerationGrid::remove_element; nothing happens when idx is not in the grid
remove_element(grid, idx) == [j \in DOMAIN grid \ {idx} |-> grid[j]]

\* AccelerationGrid::update_element: remove_element, then add_element
update_element(grid, idx, box) == add_element(remove_element(grid, idx), idx, box)

\* AccelerationGrid::find_overlapping_elements, appended to the output list
find_overlapping_elements(grid, box) ==
    SetToSeq({j \in DOMAIN grid : BoxesOverlap(grid[j], box)})

\* get_potential_vertex_collisions, ..._edge_..., ..._triangle_...
get_potential_collisions(kind, box, return_solid, return_dynamic) ==
    (IF return_solid THEN find_overlapping_elements(grids[kind].solid, box) ELSE <<>>)
    \o
    (IF return_dynamic THEN find_overlapping_elements(grids[kind].dynamic, box) ELSE <<>>)

InSolidGrid(kind, i) == i \in DOMAIN grids[kind].solid

InDynamicGrid(kind, i) == i \in DOMAIN grids[kind].dynamic

\* (kind, i) is registered again
Registering(kind, i) == {g \in h_gone : g.kind # kind \/ g.index # i}

GridCall ==
    /\ calls < MaxCalls
    /\ calls' = calls + 1
    /\ UNCHANGED <<meshVars, kinVars, oracleVars, pipeVars, histVars, auditVars,
                   trackerVars, pincherVars, near, collisions>>

\* add_vertex, add_edge, add_triangle of an element that is in neither grid
BroadPhaseGrid_add ==
    /\ GridCall
    /\ \E kind \in GridKinds, index \in GridIds, box \in GridBoxes, is_solid \in BOOLEAN :
          /\ ~InSolidGrid(kind, index)
          /\ ~InDynamicGrid(kind, index)
          /\ grids' = IF is_solid
                      THEN [grids EXCEPT ![kind].solid = add_element(@, index, box)]
                      ELSE [grids EXCEPT ![kind].dynamic = add_element(@, index, box)]
          /\ h_gone' = Registering(kind, index)

\* update_vertex, update_edge, update_triangle
BroadPhaseGrid_update ==
    /\ GridCall
    /\ \E kind \in GridKinds, index \in GridIds, box \in GridBoxes, is_solid \in BOOLEAN :
          /\ grids' = IF is_solid
                      THEN [grids EXCEPT ![kind].solid = update_element(@, index, box)]
                      ELSE [grids EXCEPT ![kind].dynamic = update_element(@, index, box)]
          /\ h_gone' = Registering(kind, index)

\* a removal that leaves the dynamic grid alone
Mut_BroadPhaseGrid_remove ==
    /\ GridCall
    /\ \E kind \in GridKinds, index \in GridIds :
          /\ grids' = [grids EXCEPT ![kind].solid = remove_element(@, index)]
          /\ h_gone' = Registering(kind, index) \cup
                       {[kind |-> kind, index |-> index,
                         was_solid |-> InSolidGrid(kind, index),
                         was_dynamic |-> InDynamicGrid(kind, index)]}

\* remove_vertex, remove_edge, remove_triangle
BroadPhaseGrid_remove ==
    /\ GridCall
    /\ \E kind \in GridKinds, index \in GridIds :
          /\ grids' = [grids EXCEPT ![kind].solid = remove_element(@, index),
                                    ![kind].dynamic = remove_element(@, index)]
          /\ h_gone' = Registering(kind, index) \cup
                       {[kind |-> kind, index |-> index,
                         was_solid |-> InSolidGrid(kind, index),
                         was_dynamic |-> InDynamicGrid(kind, index)]}

\* a broad phase that holds nothing yet, over a surface nothing is called on
GridInit ==
    /\ m_tris = FixtureTris
    /\ m_edges = FixtureEdges
    /\ m_masses = [v \in FixtureVerts |-> One]
    /\ m_positions = [v \in FixtureVerts |-> RInt(v)]
    /\ m_velocities = [v \in FixtureVerts |-> Zero]
    /\ dt = One
    /\ m_newpositions = m_positions
    /\ coll = {}
    /\ turns = 0
    /\ bp_slack = FALSE
    /\ PipelineIdle
    /\ m_aabb_padding = Zero
    /\ bp_continuous = TRUE
    /\ isect = {}
    /\ use_new_positions = FALSE
    /\ AuditIdle
    /\ TrackerIdle
    /\ m_collision_safety = TRUE
    /\ PincherIdle
    /\ near = <<>>
    /\ GridIdle
    /\ collisions = <<>>

GridNext ==
    \/ BroadPhaseGrid_add
    \/ BroadPhaseGrid_update
    \/ BroadPhaseGrid_remove

GridSpec == GridInit /\ [][GridNext]_vars

(***************************************************************************)
(* Degenerate triangles and the audit.                                     *)
(***************************************************************************)
\* a triangle of the table that is no removed slot and has two equal slots
LiveDegenerate(t) == ~TriIsDead(t) /\ TriangleIsDegenerate(m_tris[t])

\* C11: when get_intersections has returned, every triangle of the table with
\* two equal vertex slots is flagged: some reported intersection names the
\* triangle or one of its edges.
C11_DegenerateTriangleFlagged ==
    audit_pc = "done" =>
        \A t \in DOMAIN m_tris :
            LiveDegenerate(t) =>
                \E k \in Reported : k[2] = t \/ EdgeVerts(k[1]) \subseteq TriVerts(t)

\* an audit that returned on a mesh holding such a triangle
C11_Reached == audit_pc = "done" /\ \E t \in DOMAIN m_tris : LiveDegenerate(t)

(***************************************************************************)
(* Degenerate triangles and the pincher.                                   *)
(***************************************************************************)
\* C12: started on a mesh whose live triangles have three distinct vertex
\* slots, the pincher keeps it so: every triangle pull_apart_vertex is about to
\* add, and every slot of the triangle table that is not a removed slot, has
\* three distinct vertex slots.
C12_NoDegenerateTriangle ==
    /\ \A k \in DOMAIN pull.triangles_to_add :
          ~TriangleIsDegenerate(pull.triangles_to_add[k])
    /\ \A t \in DOMAIN m_tris :
          m_tris[t] = <<0, 0, 0>> \/ ~TriangleIsDegenerate(m_tris[t])

\* a committed pull-apart: a live triangle names a duplicate vertex
C12_Reached ==
    /\ pull_ret = "true"
    /\ \E t \in DOMAIN m_tris :
          ~TriIsDead(t) /\ TriVerts(t) \cap Range(pull.vertices_added) # {}

(***************************************************************************)
(* Impulses and infinite masses.                                           *)
(***************************************************************************)
\* C13: the scaled impulse of every apply_impulse call of the pipeline is
\* finite, that is its denominator is not zero, so that every velocity and
\* every predicted position stays a finite number.
C13_ImpulseStaysFinite ==
    \A v \in Verts : IsFinite(m_velocities[v]) /\ IsFinite(m_newpositions[v])

\* an impulse was applied to a collision with a vertex of infinite mass
C13_Reached ==
    /\ h_log.kind = "hit"
    /\ \E v \in Verts : vertex_is_solid(v)

(***************************************************************************)
(* The proximity pass at the distance m_proximity_epsilon.                 *)
(***************************************************************************)
\* the last step of process_proximity_candidates popped a candidate that
\* reached the distance test with a distance of exactly m_proximity_epsilon
PoppedAtEpsilon ==
    /\ InProximities
    /\ "candidate" \in DOMAIN h_log
    /\ ProximityTested(h_log.candidate)
    /\ StaticDistance(h_log.candidate) = m_proximity_epsilon

\* C14: in the proximity pass a candidate, point-triangle or edge-edge, whose
\* static distance is exactly m_proximity_epsilon receives no impulse: the
\* step that pops it changes no velocity and no predicted position.
C14_AtEpsilonNoImpulse ==
    [][PoppedAtEpsilon' => UNCHANGED kinVars]_vars

\* an edge-edge candidate with a dynamic edge has been popped at that distance
C14_Reached ==
    /\ PoppedAtEpsilon
    /\ h_log.candidate[3] = 1
    /\ ~BothSolid(h_log.candidate)

(***************************************************************************)
(* Impulses and solid pairs.                                               *)
(***************************************************************************)
\* C20: no impulse is ever applied, in handle_proximities or in the main pass
\* or the wind-down of handle_collisions, to a candidate whose two primitives
\* are both solid.
C20_NoImpulseOnSolidPair ==
    [][(h_log'.kind = "hit" /\ CurrentList # <<>>) => ~BothSolid(Head(CurrentList))]_vars

\* the proximity pass has applied an impulse to a candidate with a solid edge
C20_Reached ==
    /\ InProximities
    /\ h_log.kind = "hit"
    /\ h_log.candidate[3] = 1
    /\ edge_is_solid(h_log.candidate[1]) \/ edge_is_solid(h_log.candidate[2])

(***************************************************************************)
(* Properties of the broad phase.                                          *)
(***************************************************************************)
\* no index occurs twice in the list
Once(list) == \A a, b \in DOMAIN list : list[a] = list[b] => a = b

InBothGrids(kind, i) == InSolidGrid(kind, i) /\ InDynamicGrid(kind, i)

\* C15: after any sequence of add_*, update_* and remove_* calls, an update_*
\* with another is_solid flag than the add_* included, each index is
\* registered in at most one of the solid and dynamic grids of its kind, and a
\* query with return_solid = return_dynamic = true returns each overlapping
\* index at most once.
C15_RegisteredInOneGrid ==
    /\ \A kind \in GridKinds, i \in GridIds : ~InBothGrids(kind, i)
    /\ \A kind \in GridKinds, box \in GridBoxes :
          Once(get_potential_collisions(kind, box, TRUE, TRUE))

\* an element added as dynamic and updated as solid is returned twice
C15_Reached ==
    \E kind \in GridKinds, i \in GridIds, box \in GridBoxes :
        /\ InBothGrids(kind, i)
        /\ ~Once(get_potential_collisions(kind, box, TRUE, TRUE))

\* C16: remove_vertex, remove_edge and remove_triangle are safe whether the
\* index is in the solid grid, in the dynamic grid or in neither, and from then
\* on no query of that kind, whatever its flags and its box, returns the index
\* until it is registered again.
C16_RemovedNotReturned ==
    \A g \in h_gone, box \in GridBoxes, return_solid \in BOOLEAN, return_dynamic \in BOOLEAN :
        g.index \notin Range(get_potential_collisions(g.kind, box, return_solid,
                                                      return_dynamic))

\* an element of the dynamic grid and an element of neither grid were removed
C16_Reached ==
    /\ \E g \in h_gone : g.was_dynamic
    /\ \E g \in h_gone : ~g.was_dynamic /\ ~g.was_solid

\* C17: a query yields exactly the overlapping elements of the solid grid, if
\* return_solid, and of the dynamic grid, if return_dynamic: nothing with both
\* flags false, no solid element when return_solid is false and no dynamic
\* element when return_dynamic is false.
C17_QueryIsUnionOfMatchingGrids ==
    \A kind \in GridKinds, box \in GridBoxes, return_solid \in BOOLEAN, return_dynamic \in BOOLEAN :
        LET out == Range(get_potential_collisions(kind, box, return_solid, return_dynamic))
            solid == {i \in GridIds : InSolidGrid(kind, i) /\
                                       BoxesOverlap(grids[kind].solid[i], box)}
            dynamic == {i \in GridIds : InDynamicGrid(kind, i) /\
                                         BoxesOverlap(grids[kind].dynamic[i], box)}
        IN  /\ out = (IF return_solid THEN solid ELSE {})
                       \cup (IF return_dynamic THEN dynamic ELSE {})
            /\ ~return_solid /\ ~return_dynamic => out = {}
            /\ ~return_solid => \A i \in out : ~InSolidGrid(kind, i)
            /\ ~return_dynamic => \A i \in out : ~InDynamicGrid(kind, i)

\* a query for dynamic elements alone returns an element of the solid grid
C17_Reached ==
    \E kind \in GridKinds, box \in GridBoxes :
        \E i \in Range(get_potential_collisions(kind, box, FALSE, TRUE)) :
            InSolidGrid(kind, i)

(***************************************************************************)
(* The duplicates of a pulled-apart vertex.                                *)
(***************************************************************************)
\* the triangle old with the vertex v replaced by w
Reattached(old, v, w) == [k \in 1..3 |-> IF old[k] = v THEN w ELSE old[k]]

\* component i of the last pull_apart_vertex hangs on the new vertex w alone
OnOwnCopy(i, w) ==
    /\ w \notin DOMAIN h_before.positions
    /\ \A t \in Range(pull.connected_components[i]) : TriIsDead(t)
    /\ {m_tris[t] : t \in IncidentTriangles(w)} =
           {Reattached(h_before.tris[t], pull.vertex_index, w) :
               t \in Range(pull.connected_components[i])}

\* the statement of C18 as it stands: a committed pull_apart_vertex creates a
\* new vertex for each of the n components and leaves no triangle on the
\* vertex it was called for
C18_OneNewVertexPerComponent ==
    pull_ret = "true" =>
        /\ Len(pull.vertices_added) = Len(pull.connected_components)
        /\ IncidentTriangles(pull.vertex_index) = {}

\* C18: for a vertex whose incident triangles form n >= 2 face-connected
\* components a committed pull_apart_vertex creates one new vertex for each
\* component but the last and re-attaches the triangles of each of those
\* components to that component's own copy; the triangles of the last
\* component stay on the vertex itself.
C18_OneNewVertexPerComponentButLast ==
    pull_ret = "true" =>
        /\ Len(pull.connected_components) >= 2
        /\ Len(pull.vertices_added) = Len(pull.connected_components) - 1
        /\ Once(pull.vertices_added)
        /\ \A i \in DOMAIN pull.vertices_added : OnOwnCopy(i, pull.vertices_added[i])
        /\ IncidentTriangles(pull.vertex_index) =
               Range(pull.connected_components[Len(pull.connected_components)])
        /\ \A t \in IncidentTriangles(pull.vertex_index) : m_tris[t] = h_before.tris[t]

\* a pull_apart_vertex was committed
C18_Reached ==
    /\ pull_ret = "true"
    /\ pull.vertices_added # <<>>
    /\ IncidentTriangles(pull.vertex_index) # {}

(***************************************************************************)
(* What an impulse enqueues.                                               *)
(***************************************************************************)
\* the candidates of vertex v and of every triangle and edge incident to it,
\* for the broad phase's answers c
IncidentCandidates(c, v) ==
    Range(add_point_candidates(c, v, TRUE, TRUE))
    \cup UNION {Range(add_triangle_candidates(c, t, TRUE, TRUE)) :
                  t \in Range(m_vertex_to_triangle_map(v))}
    \cup UNION {Range(add_edge_candidates(c, e, TRUE, TRUE)) :
                  e \in Range(m_vertex_to_edge_map(v))}

\* C19: whenever an impulse is applied in the only pass or in the wind-down
\* and no overflow has occurred, candidates are enqueued for each of the four
\* vertices of the collision: the vertex against nearby triangles, its
\* incident triangles against nearby vertices and its incident edges against
\* nearby edges.
C19_ImpulseEnqueuesIncidentPrimitives ==
    [][(h_log'.kind = "hit" /\ ~status'.overflow /\ CurrentList # <<>>) =>
          \A v \in PairVerts(Head(CurrentList)) :
              IncidentCandidates(coll', v) \subseteq Range(update_collision_candidates')]_vars

\* an impulse without overflow has just changed the predicted position of a
\* solid vertex
C19_Reached ==
    /\ h_log.kind = "hit"
    /\ ~status.overflow
    /\ \E v \in Verts : vertex_is_solid(v) /\ m_newpositions[v] # h_pre.newpositions[v]

(***************************************************************************)
(* What apply_impulse writes.                                              *)
(***************************************************************************)
\* C21: every applied impulse, of the proximity pass or of CCD, leaves each of
\* the four vertices of its contact with x' = x + dt * u for the velocity u
\* the impulse gave it, and leaves the velocity and the predicted position of
\* every other vertex as they were.
C21_ImpulseUpdatesPredictedPositions ==
    [][(h_log'.kind = "hit" /\ CurrentList # <<>>) =>
          \A v \in Verts :
              IF v \in PairVerts(Head(CurrentList))
              THEN m_newpositions'[v] = RAdd(m_positions[v], RMul(dt, m_velocities'[v]))
              ELSE /\ m_velocities'[v] = m_velocities[v]
                   /\ m_newpositions'[v] = m_newpositions[v]]_vars

\* a proximity impulse has changed a velocity, and a vertex lies outside the
\* contact
C21_Reached ==
    /\ InProximities
    /\ h_log.kind = "hit"
    /\ m_velocities # h_pre.velocities
    /\ Verts \ PairVerts(h_log.candidate) # {}

(***************************************************************************)
(* The magnitude of a proximity impulse.                                   *)
(***************************************************************************)
\* v_rel of the contact the step has just handled, at the velocities before it
ContactSpeed ==
    RMul(h_log'.normal,
         RelativeVelocity(h_log'.contact.alphas, h_log'.contact.m_vertex_indices,
                          m_velocities))

\* 0.1 * (eps - d) / dt of that contact
ContactThreshold ==
    RDiv(RMul(<<1, 10>>, RSub(m_proximity_epsilon, StaticDistance(h_log'.candidate))),
         dt)

\* k * dt * (eps - d) of that contact, k = 10
ContactCap ==
    RMul(RMul(RInt(10), dt),
         RSub(m_proximity_epsilon, StaticDistance(h_log'.candidate)))

\* C22: a proximity candidate closer than m_proximity_epsilon, on the outward
\* side of the normal, is skipped with no impulse when v_rel exceeds
\* 0.1 * (eps - d) / dt; otherwise the magnitude handed to the impulse
\* kernel is min(max(0, 0.1 * (eps - d) / dt - v_rel), k * dt * (eps - d)),
\* which is never negative.
C22_ProximityImpulseMagnitude ==
    [][(InProximities /\ "contact" \in DOMAIN h_log') =>
          \A threshold \in {ContactThreshold} : \A v_rel \in {ContactSpeed} :
          \A cap \in {ContactCap} : \A repel \in {RMax(Zero, RSub(threshold, v_rel))} :
              IF RLt(threshold, v_rel)
              THEN /\ h_log'.kind = "miss"
                   /\ m_velocities' = m_velocities
                   /\ m_newpositions' = m_newpositions
              ELSE /\ h_log'.kind = "hit"
                   /\ ~RLt(h_log'.impulse, Zero)
                   /\ h_log'.impulse = RMin(repel, cap)]_vars

\* an impulse that the cap k * dt * (eps - d) has cut down
C22_Reached ==
    /\ InProximities
    /\ h_log.kind = "hit"
    /\ h_log.impulse = RMul(RMul(RInt(10), dt),
                            RSub(m_proximity_epsilon, StaticDistance(h_log.candidate)))
    /\ RLt(Zero, h_log.impulse)

(***************************************************************************)
(* CollisionPipeline::detect_collisions and detect_new_collisions: the     *)
(* candidates of the whole mesh, or of the impact zones, go through        *)
(* test_collision_candidates.  Nothing is moved.                           *)
(***************************************************************************)
\* const size_t MAX_COLLISIONS = 5000, scaled down
MAX_COLLISIONS == 2

\* the three loops of detect_collisions(collisions)
DetectCandidates ==
    Concat([j \in 1..Size(m_masses) |->
              IF vertex_is_solid(j - 1) THEN <<>>
              ELSE add_point_candidates(coll, j - 1, TRUE, FALSE)])
    \o Concat([j \in 1..Size(m_tris) |->
                 IF triangle_is_solid(j - 1) THEN <<>>
                 ELSE add_triangle_candidates(coll, j - 1, TRUE, TRUE)])
    \o Concat([j \in 1..Size(m_edges) |->
                 IF edge_is_solid(j - 1) THEN <<>>
                 ELSE add_edge_candidates(coll, j - 1, TRUE, TRUE)])

\* add_unique over the incidence lists of the zone's vertices
ZoneElements(zone_vertices, incidence(_)) ==
    LET all == Concat([j \in 1..Len(zone_vertices) |-> incidence(zone_vertices[j])])
    IN  SelectSeq([j \in 1..Len(all) |->
                     IF \E i \in 1..(j - 1) : all[i] = all[j] THEN -1 ELSE all[j]],
                  LAMBDA x : x # -1)

\* the three loops of detect_new_collisions
ZoneCandidates(zone_vertices) ==
    LET zone_triangles == ZoneElements(zone_vertices, m_vertex_to_triangle_map)
        zone_edges == ZoneElements(zone_vertices, m_vertex_to_edge_map)
    IN  Concat([j \in 1..Len(zone_vertices) |->
                  add_point_candidates(coll, zone_vertices[j], TRUE, TRUE)])
        \o Concat([j \in 1..Len(zone_triangles) |->
                     add_triangle_candidates(coll, zone_triangles[j], TRUE, TRUE)])
        \o Concat([j \in 1..Len(zone_edges) |->
                     add_edge_candidates(coll, zone_edges[j], TRUE, TRUE)])

\* the vertices of the impact zones handed to detect_new_collisions
Zones == {<<2>>, <<3, 4>>, <<0, 1, 2, 3>>}

\* what a ProcessCollisionStatus that was declared and not written may hold
Indeterminate ==
    [overflow : BOOLEAN, collision_found : BOOLEAN, all_candidates_processed : BOOLEAN]

InDetect == pc \in {"detect_collisions", "detect_new_collisions"}

\* what no step of the two procedures touches
DetectFrame ==
    UNCHANGED <<meshVars, kinVars, oracleVars, pc, dt, update_collision_candidates,
                iter_i, max_iteration, collision_found, proc, histVars,
                auditVars, trackerVars, pincherVars, near, grids, calls, h_gone>>

\* lines 1076-1125: the candidates, then ProcessCollisionStatus status;
detect_collisions_gather ==
    /\ pc = "detect_collisions"
    /\ loop_i = 0
    /\ candidates' = DetectCandidates
    /\ status' \in Indeterminate
    /\ loop_i' = 1
    /\ UNCHANGED <<ret, collisions>>
    /\ DetectFrame

\* lines 1149-1235: the candidates, then status.overflow = false
detect_new_collisions_gather ==
    /\ pc = "detect_new_collisions"
    /\ loop_i = 0
    /\ \E zone_vertices \in Zones : candidates' = ZoneCandidates(zone_vertices)
    /\ status' \in {st \in Indeterminate : ~st.overflow}
    /\ loop_i' = 1
    /\ UNCHANGED <<ret, collisions>>
    /\ DetectFrame

\* detect_segment_segment_collision or detect_point_triangle_collision
DetectCandidate(candidate) ==
    IF candidate[3] = 1 THEN detect_segment_segment_collision(candidate)
    ELSE detect_point_triangle_collision(candidate)

\* a test loop that never looks at the size of collisions
Mut_test_collision_candidates_step ==
    /\ InDetect
    /\ loop_i = 1
    /\ candidates # <<>>
    /\ candidates' = Tail(candidates)
    /\ IF DetectCandidate(Head(candidates))
       THEN /\ collisions' = Append(collisions, Head(candidates))
            /\ status' = [status EXCEPT !.collision_found = TRUE]
       ELSE UNCHANGED <<collisions, status>>
    /\ UNCHANGED <<loop_i, ret>>
    /\ DetectFrame

\* one trip of the while loop of test_collision_candidates
test_collision_candidates_step ==
    /\ InDetect
    /\ loop_i = 1
    /\ candidates # <<>>
    /\ candidates' = Tail(candidates)
    /\ IF DetectCandidate(Head(candidates))
       THEN /\ collisions' = Append(collisions, Head(candidates))
            /\ IF Len(collisions) + 1 > MAX_COLLISIONS
               THEN /\ status' = [overflow |-> TRUE, collision_found |-> TRUE,
                                  all_candidates_processed |-> FALSE]
                    /\ loop_i' = 2
               ELSE /\ status' = [status EXCEPT !.collision_found = TRUE]
                    /\ loop_i' = loop_i
       ELSE UNCHANGED <<collisions, status, loop_i>>
    /\ UNCHANGED ret
    /\ DetectFrame

\* the list is empty: all_candidates_processed = true, then the assertion, which
\* a build with assertions ends the program on and a build without skips
test_collision_candidates_end ==
    /\ InDetect
    /\ loop_i = 1
    /\ candidates = <<>>
    /\ status' = [status EXCEPT !.all_candidates_processed = TRUE]
    /\ \/ loop_i' = 2 /\ ret' = ret
       \/ status.overflow /\ loop_i' = 3 /\ ret' = "abort"
    /\ UNCHANGED <<candidates, collisions>>
    /\ DetectFrame

\* if ( !status.all_candidates_processed ) return false; return true;
detect_collisions_return ==
    /\ pc = "detect_collisions"
    /\ loop_i = 2
    /\ ret' = IF ~status.all_candidates_processed THEN "false" ELSE "true"
    /\ loop_i' = 3
    /\ UNCHANGED <<candidates, status, collisions>>
    /\ DetectFrame

\* if ( !status.all_candidates_processed || status.overflow ) return false;
detect_new_collisions_return ==
    /\ pc = "detect_new_collisions"
    /\ loop_i = 2
    /\ ret' = IF ~status.all_candidates_processed \/ status.overflow
              THEN "false" ELSE "true"
    /\ loop_i' = 3
    /\ UNCHANGED <<candidates, status, collisions>>
    /\ DetectFrame

\* one of the two procedures is about to run on a surface at rest or moving
DetectInit ==
    /\ m_tris = FixtureTris
    /\ m_edges = FixtureEdges
    /\ \E S \in SolidSets :
          m_masses = [v \in FixtureVerts |-> IF v \in S THEN PosInf ELSE One]
    /\ m_positions = [v \in FixtureVerts |-> RInt(v)]
    /\ m_velocities \in VelocityFields
    /\ dt = One
    /\ m_newpositions =
          [v \in FixtureVerts |-> RAdd(m_positions[v], RMul(dt, m_velocities[v]))]
    /\ coll \in SUBSET Watched
    /\ turns = MaxTurns
    /\ bp_slack \in BOOLEAN
    /\ near = <<>>
    /\ pc \in {"detect_collisions", "detect_new_collisions"}
    /\ loop_i = 0
    /\ candidates = <<>>
    /\ update_collision_candidates = <<>>
    /\ iter_i = 0
    /\ max_iteration = 0
    /\ status = [overflow |-> FALSE, collision_found |-> FALSE,
                 all_candidates_processed |-> FALSE]
    /\ collision_found = FALSE
    /\ proc = FALSE
    /\ ret = "none"
    /\ h_pre = [velocities |-> m_velocities, newpositions |-> m_newpositions,
                coll |-> coll]
    /\ h_entry = [n |-> 0, trips |-> 0]
    /\ h_log = NoLog
    /\ m_aabb_padding = Zero
    /\ bp_continuous = TRUE
    /\ isect = {}
    /\ use_new_positions = FALSE
    /\ AuditIdle
    /\ TrackerIdle
    /\ m_collision_safety = TRUE
    /\ PincherIdle
    /\ GridIdle
    /\ collisions = <<>>

DetectNext ==
    \/ detect_collisions_gather
    \/ detect_new_collisions_gather
    \/ test_collision_candidates_step
    \/ test_collision_candidates_end
    \/ detect_collisions_return
    \/ detect_new_collisions_return

DetectSpec == DetectInit /\ [][DetectNext]_vars

\* the candidates test_collision_candidates has popped so far
Tested == SubSeq(DetectCandidates, 1, Len(DetectCandidates) - Len(candidates))

\* C23: detect_collisions(collisions) returns false exactly when more than
\* MAX_COLLISIONS collisions have been collected, and then overflow is set and
\* testing stopped with the collision that passed the limit; when it returns
\* true every generated candidate has been tested; either way collisions
\* holds one entry for each tested candidate that collides, and no position,
\* predicted position or velocity has changed.
C23_DetectCollisionsReturn ==
    pc = "detect_collisions" =>
        /\ m_positions = [v \in FixtureVerts |-> RInt(v)]
        /\ m_velocities = h_pre.velocities
        /\ m_newpositions = h_pre.newpositions
        /\ ret \in {"true", "false"} =>
              /\ collisions = SelectSeq(Tested, DetectCandidate)
              /\ ret = "false" <=> Len(collisions) > MAX_COLLISIONS
              /\ ret = "false" =>
                    /\ status.overflow
                    /\ Len(collisions) = MAX_COLLISIONS + 1
                    /\ DetectCandidate(Tested[Len(Tested)])
              /\ ret = "true" => candidates = <<>>

\* detect_collisions has returned false and left candidates untested
C23_Reached ==
    /\ pc = "detect_collisions"
    /\ ret = "false"
    /\ candidates # <<>>
    /\ \E i \in 1..Len(candidates) : DetectCandidate(candidates[i])

ComponentSets(connected_components) ==
    {Range(connected_components[i]) : i \in 1..Len(connected_components)}

\* the number of places of the components that hold triangle t
Occurrences(connected_components, t) ==
    Cardinality({<<i, j>> \in (1..Len(connected_components)) \X (0..Cardinality(DOMAIN m_tris)) :
                    /\ j \in 1..Len(connected_components[i])
                    /\ connected_components[i][j] = t})

\* C24: partition_vertex_neighbourhood(v) ends, and returns a partition of the
\* triangles incident to v: each of them is in exactly one component, no
\* component is empty, and two triangles share a component exactly when a
\* chain of edge-adjacent triangles incident to v links them.
C24_PartitionOfIncidentTriangles ==
    \A v \in Verts : \A connected_components \in {partition_vertex_neighbourhood(v)} :
        /\ \A t \in DOMAIN m_tris :
              Occurrences(connected_components, t) = IF t \in IncidentTriangles(v) THEN 1 ELSE 0
        /\ \A i \in 1..Len(connected_components) : connected_components[i] # <<>>
        /\ ComponentSets(connected_components) = Components(v)
        /\ Len(connected_components) = Cardinality(Components(v))

\* pull_apart_vertex holds the partition of a vertex with two components, one
\* of them of two adjacent triangles
C24_Reached ==
    /\ Len(pull.connected_components) >= 2
    /\ \E i \in 1..Len(pull.connected_components) : Len(pull.connected_components[i]) >= 2
    /\ pull.connected_components = partition_vertex_neighbourhood(pull.vertex_index)

(***************************************************************************)
(* The order of the surface operations within ElTopoTracker::step.         *)
(***************************************************************************)
\* the operations of a call in the order the claim gives them
StepOrder ==
    <<"set_all_newpositions", "integrate", "set_positions_to_newpositions">>
    \o (IF via_step THEN <<"improve_mesh", "topology_changes">> ELSE <<>>)
    \o (IF via_step /\ m_defrag_mesh THEN <<"defrag_mesh">> ELSE <<>>)

Remeshing == {"improve_mesh", "topology_changes", "defrag_mesh"}

\* C25: step sets the predicted positions, runs collision resolution, commits
\* the positions, and only then runs improve_mesh, topology_changes and, when
\* enabled, defrag_mesh last; no remeshing operator runs between the setting of
\* the predicted positions and the commit.
C25_StepOrder ==
    /\ Len(h_events) <= Len(StepOrder)
    /\ h_events = SubSeq(StepOrder, 1, Len(h_events))
    /\ trk_pc = "returned" => h_events = StepOrder
    /\ \A i, j \in 1..Len(h_events) :
          (h_events[i] \in Remeshing /\ h_events[j] = "set_positions_to_newpositions")
             => j < i

\* a step with defragmentation enabled has returned
C25_Reached ==
    /\ trk_pc = "returned"
    /\ via_step
    /\ m_defrag_mesh
    /\ h_events[Len(h_events)] = "defrag_mesh"

(***************************************************************************)
(* Collision handling on a mesh with removed slots: triangle 1 and its     *)
(* edges have been removed and the tables have not been defragmented.      *)
(***************************************************************************)
\* the tables after remove_triangle(1): NonDestructiveTriMesh marks the slots
TombstoneTris == (0 :> <<0, 1, 2>>) @@ (1 :> <<0, 0, 0>>)

TombstoneEdges ==
    (0 :> <<0, 1>>) @@ (1 :> <<1, 2>>) @@ (2 :> <<2, 0>>) @@
    (3 :> <<0, 0>>) @@ (4 :> <<0, 0>>) @@ (5 :> <<0, 0>>)

\* the pairs whose boxes may overlap: the vertices left behind against the
\* live triangle and against the removed slot, whose three vertices are vertex 0
TombstoneWatched == {PTKey(0, 3), PTKey(0, 4), PTKey(1, 3), PTKey(1, 4)}

TombstoneSolidSets == {{}, {3}, {0, 1, 2}}

\* integrate is about to call handle_proximities, then handle_collisions
TombstoneInit ==
    /\ m_tris = TombstoneTris
    /\ m_edges = TombstoneEdges
    /\ \E S \in TombstoneSolidSets :
          m_masses = [v \in FixtureVerts |-> IF v \in S THEN PosInf ELSE One]
    /\ m_positions = [v \in FixtureVerts |-> RInt(v)]
    /\ m_velocities \in VelocityFields
    /\ dt = One
    /\ m_newpositions =
          [v \in FixtureVerts |-> RAdd(m_positions[v], RMul(dt, m_velocities[v]))]
    /\ coll \in {c \in SUBSET TombstoneWatched : Cardinality(c) <= MaxColl}
    /\ turns = MaxTurns
    /\ bp_slack \in BOOLEAN
    /\ near \in {<<>>} \cup {(key :> d) : key \in TombstoneWatched, d \in NearDistances}
    /\ pc = "prox_point"
    /\ loop_i = 0
    /\ candidates = <<>>
    /\ update_collision_candidates = <<>>
    /\ iter_i = 0
    /\ max_iteration = 0
    /\ status = [overflow |-> FALSE, collision_found |-> FALSE,
                 all_candidates_processed |-> FALSE]
    /\ collision_found = FALSE
    /\ proc = FALSE
    /\ ret = "none"
    /\ h_pre = [velocities |-> m_velocities, newpositions |-> m_newpositions,
                coll |-> coll]
    /\ h_entry = [n |-> 0, trips |-> 0]
    /\ h_log = NoLog
    /\ m_aabb_padding = Zero
    /\ bp_continuous = TRUE
    /\ isect = {}
    /\ use_new_positions = FALSE
    /\ AuditIdle
    /\ TrackerIdle
    /\ m_collision_safety = TRUE
    /\ PincherIdle
    /\ GridIdle
    /\ collisions = <<>>

TombstoneSpec == TombstoneInit /\ [][ProximityNext]_vars

\* the candidate names a removed triangle or a removed edge
Tombstoned(c) ==
    IF c[3] = 0 THEN TriIsDead(c[1]) ELSE EdgeIsDead(c[1]) \/ EdgeIsDead(c[2])

\* the candidate gets as far as check_*_proximity or as the CCD query
QueryRun(c) ==
    IF InProximities THEN ProximityTested(c)
    ELSE IF c[3] = 0
    THEN /\ c[2] \notin {m_tris[c[1]][1], m_tris[c[1]][2], m_tris[c[1]][3]}
         /\ ~(triangle_is_solid(c[1]) /\ vertex_is_solid(c[2]))
    ELSE /\ m_edges[c[1]][1] # m_edges[c[1]][2]
         /\ m_edges[c[2]][1] # m_edges[c[2]][2]
         /\ ~EEIncident(c[1], c[2])
         /\ ~(edge_is_solid(c[1]) /\ edge_is_solid(c[2]))

\* C26: with removed slots in the tables, handle_proximities and
\* handle_collisions run no proximity or CCD test on a removed triangle or
\* edge and apply no impulse for one, so that the four vertex indices of every
\* applied collision are pairwise distinct.
C26_TombstonesTakeNoPart ==
    [][(h_log'.kind # "none" /\ CurrentList # <<>>) =>
          \A c \in {Head(CurrentList)} :
              /\ Tombstoned(c) => ~QueryRun(c)
              /\ h_log'.kind = "hit" =>
                    ~Tombstoned(c) /\ Cardinality(PairVerts(c)) = 4]_vars

\* the proximity pass has pushed a vertex away from a removed triangle
C26_Reached ==
    /\ InProximities
    /\ h_log.kind = "hit"
    /\ h_log.candidate[3] = 0
    /\ TriIsDead(h_log.candidate[1])
    /\ h_log.contact.m_vertex_indices[2] = h_log.contact.m_vertex_indices[3]

\* the removed edges never reach a query
C26_RemovedEdgesTakeNoPart ==
    [][(h_log'.kind # "none" /\ CurrentList # <<>>) =>
          \A c \in {Head(CurrentList)} :
              (c[3] = 1 /\ Tombstoned(c)) => (~QueryRun(c) /\ h_log'.kind = "miss")]_vars

(***************************************************************************)
(* The Collision records of the narrow phase.  segment_segment_collision   *)
(* reports s0 for its first vertex, 1 - s0 for its second, s2 for its      *)
(* third and 1 - s2 for its fourth; point_triangle_collision reports 1 for *)
(* the point and s1, s2, s3 for the triangle's vertices in the order they  *)
(* were passed.                                                            *)
(***************************************************************************)
\* the parameters s0, s2 the segment-segment query may report
AlignBary == {<<Half, Half>>, <<Zero, <<1, 4>>>>, <<Half, <<1, 4>>>>}

\* vertex |-> weight, as segment_segment_collision(a, b, c, d, s0, s2) computes
SegmentSegmentWeights(a, b, c, d, s) ==
    (a :> s[1]) @@ (b :> RSub(One, s[1])) @@ (c :> s[2]) @@ (d :> RSub(One, s[2]))

\* vertex |-> weight, as point_triangle_collision(p, a, b, c, s1, s2, s3) computes
PointTriangleWeights(p, a, b, c, w) ==
    (p :> One) @@ (a :> w[1]) @@ (b :> w[2]) @@ (c :> w[3])

\* Collision( is_edge_edge, indices, normal, weights, rel_disp ) next to what
\* the query computed
Record(is_edge_edge, vi, bary, query) ==
    [collision |-> [m_is_edge_edge |-> is_edge_edge,
                    m_vertex_indices |-> vi,
                    m_normal |-> One,
                    m_barycentric_coordinates |-> bary,
                    m_relative_displacement |-> Zero],
     query |-> query]

\* Vec4d( s0, (1-s0), s2, (1-s2) )
EdgeEdgeBary(s) == <<s[1], RSub(One, s[1]), s[2], RSub(One, s[2])>>

\* a third test that stores the indices in the order of the query
Mut_EdgeVsTriangleEdge2(e0, e1, t0, t2, s) ==
    Record(TRUE, <<e0, e1, t0, t2>>, EdgeEdgeBary(s),
           SegmentSegmentWeights(e0, e1, t0, t2, s))

\* lines 1321-1340: the query on (e0, e1, t0, t2), Vec4st( e0, e1, t2, t0 )
EdgeVsTriangleEdge2(e0, e1, t0, t2, s) ==
    Record(TRUE, <<e0, e1, t2, t0>>, EdgeEdgeBary(s),
           SegmentSegmentWeights(e0, e1, t0, t2, s))

\* the five tests of detect_collisions(edge_index, triangle_index, collisions);
\* hits are the tests the CCD queries answer positive for
EdgeTriangleCollisions(edge_index, triangle_index, hits, s, w) ==
    LET e0 == Min2(m_edges[edge_index][1], m_edges[edge_index][2])
        e1 == Max2(m_edges[edge_index][1], m_edges[edge_index][2])
        tri == sort_triangle(m_tris[triangle_index])
        t0 == tri[1]
        t1 == tri[2]
        t2 == tri[3]
    IN  (IF 1 \in hits
         THEN <<Record(TRUE, <<e0, e1, t0, t1>>, EdgeEdgeBary(s),
                       SegmentSegmentWeights(e0, e1, t0, t1, s))>>
         ELSE <<>>)
        \o (IF 2 \in hits
            THEN <<Record(TRUE, <<e0, e1, t1, t2>>, EdgeEdgeBary(s),
                          SegmentSegmentWeights(e0, e1, t1, t2, s))>>
            ELSE <<>>)
        \o (IF 3 \in hits THEN <<EdgeVsTriangleEdge2(e0, e1, t0, t2, s)>> ELSE <<>>)
        \o (IF 4 \in hits
            THEN <<Record(FALSE, <<e0, t0, t1, t2>>, <<One, w[1], w[2], w[3]>>,
                          PointTriangleWeights(e0, t0, t1, t2, w))>>
            ELSE <<>>)
        \o (IF 5 \in hits
            THEN <<Record(FALSE, <<e1, t0, t1, t2>>, <<One, w[1], w[2], w[3]>>,
                          PointTriangleWeights(e1, t0, t1, t2, w))>>
            ELSE <<>>)

\* what no narrow-phase call touches
AlignFrame ==
    UNCHANGED <<meshVars, kinVars, oracleVars, pipeVars, histVars, auditVars,
                trackerVars, pincherVars, near, grids, calls, h_gone>>

\* detect_collisions(edge_index, triangle_index, collisions) on an edge and a
\* triangle that share no vertex
detect_collisions_edge_triangle ==
    /\ pc = "narrow"
    /\ \E edge_index \in DOMAIN m_edges, triangle_index \in DOMAIN m_tris,
          hits \in SUBSET (1..5), s \in AlignBary, w \in TriBary :
          /\ EdgeVerts(edge_index) \cap TriVerts(triangle_index) = {}
          /\ collisions' = EdgeTriangleCollisions(edge_index, triangle_index, hits, s, w)
    /\ AlignFrame

\* detect_segment_segment_collision( candidate, collision ) returning true
detect_segment_segment_collision_call ==
    /\ pc = "narrow"
    /\ \E e \in DOMAIN m_edges, f \in DOMAIN m_edges, s \in AlignBary :
          /\ detect_segment_segment_collision(<<e, f, 1>>)
          /\ collisions' =
                <<[collision |-> SegmentSegmentCollision(<<e, f, 1>>, s[1], s[2]),
                   query |-> SegmentSegmentWeights(
                                Min2(m_edges[e][1], m_edges[e][2]),
                                Max2(m_edges[e][1], m_edges[e][2]),
                                Min2(m_edges[f][1], m_edges[f][2]),
                                Max2(m_edges[f][1], m_edges[f][2]), s)]>>
    /\ AlignFrame

\* detect_point_triangle_collision( candidate, collision ) returning true
detect_point_triangle_collision_call ==
    /\ pc = "narrow"
    /\ \E t \in DOMAIN m_tris, v \in Verts, w \in TriBary :
          /\ detect_point_triangle_collision(<<t, v, 0>>)
          /\ collisions' =
                <<[collision |-> PointTriangleCollision(<<t, v, 0>>, w),
                   query |-> PointTriangleWeights(v, sort_triangle(m_tris[t])[1],
                                                  sort_triangle(m_tris[t])[2],
                                                  sort_triangle(m_tris[t])[3], w)]>>
    /\ AlignFrame

\* the narrow phase is called on a mesh in which every pair collides
AlignInit ==
    /\ m_tris = FixtureTris
    /\ m_edges = FixtureEdges
    /\ m_masses = [v \in FixtureVerts |-> One]
    /\ m_positions = [v \in FixtureVerts |-> RInt(v)]
    /\ m_velocities \in VelocityFields
    /\ dt = One
    /\ m_newpositions =
          [v \in FixtureVerts |-> RAdd(m_positions[v], RMul(dt, m_velocities[v]))]
    /\ coll = AllPairs
    /\ turns = MaxTurns
    /\ bp_slack = FALSE
    /\ near = <<>>
    /\ pc = "narrow"
    /\ loop_i = 0
    /\ candidates = <<>>
    /\ update_collision_candidates = <<>>
    /\ iter_i = 0
    /\ max_iteration = 0
    /\ status = [overflow |-> FALSE, collision_found |-> FALSE,
                 all_candidates_processed |-> FALSE]
    /\ collision_found = FALSE
    /\ proc = FALSE
    /\ ret = "none"
    /\ h_pre = [velocities |-> m_velocities, newpositions |-> m_newpositions,
                coll |-> coll]
    /\ h_entry = [n |-> 0, trips |-> 0]
    /\ h_log = NoLog
    /\ m_aabb_padding = Zero
    /\ bp_continuous = TRUE
    /\ isect = {}
    /\ use_new_positions = FALSE
    /\ AuditIdle
    /\ TrackerIdle
    /\ m_collision_safety = TRUE
    /\ PincherIdle
    /\ GridIdle
    /\ collisions = <<>>

AlignNext ==
    \/ detect_collisions_edge_triangle
    \/ detect_segment_segment_collision_call
    \/ detect_point_triangle_collision_call

AlignSpec == AlignInit /\ [][AlignNext]_vars

\* the weight in every slot is the one the query computed for that slot's vertex
Aligned(record) ==
    \A k \in 1..4 :
        record.collision.m_barycentric_coordinates[k] =
            record.query[record.collision.m_vertex_indices[k]]

\* C27: in every Collision record the narrow phase builds, the weight stored
\* in slot k is the weight the CCD query computed for the vertex stored in
\* slot k: for detect_segment_segment_collision, detect_point_triangle_collision
\* and each of the five tests of detect_collisions(edge_index, triangle_index,
\* collisions), the test against the triangle edge (t0, t2) included.
C27_WeightsAlignedWithIndices ==
    pc = "narrow" => \A i \in 1..Len(collisions) : Aligned(collisions[i])

\* the test against the triangle edge (t0, t2) has built a record whose last
\* two weights are exchanged
C27_Reached ==
    /\ pc = "narrow"
    /\ \E i \in 1..Len(collisions) :
          /\ collisions[i].collision.m_is_edge_edge
          /\ ~Aligned(collisions[i])
          /\ collisions[i].collision.m_vertex_indices[3] >
                collisions[i].collision.m_vertex_indices[4]

\* the records of every test but the one against (t0, t2) are aligned
C27_OtherTestsAligned ==
    pc = "narrow" =>
        \A i \in 1..Len(collisions) :
            (collisions[i].collision.m_vertex_indices[3] <
                collisions[i].collision.m_vertex_indices[4]) => Aligned(collisions[i])

(***************************************************************************)
(* The triangles of a committed pull_apart_vertex.                         *)
(***************************************************************************)
\* the component of the last pull_apart_vertex that holds triangle t
ComponentOf(t) ==
    CHOOSE i \in 1..Len(pull.connected_components) :
        t \in Range(pull.connected_components[i])

\* the triangles of every component but the last
Moved ==
    UNION {Range(pull.connected_components[i]) :
              i \in 1..(Len(pull.connected_components) - 1)}

LiveTriangles(tris) == {t \in DOMAIN tris : tris[t][1] # tris[t][2]}

\* C29: a committed pull_apart_vertex adds as many triangles as it removes;
\* each added triangle is the removed one with the pulled vertex replaced, in
\* the same slot of the triple, by the duplicate of its component; the
\* triangles of the last component and every triangle not incident to the
\* pulled vertex are as they were.
C29_PullApartConservesTriangles ==
    pull_ret = "true" =>
        /\ Len(pull.triangles_to_add) = Len(pull.triangles_to_delete)
        /\ Range(pull.triangles_to_delete) = Moved
        /\ Once(pull.triangles_to_delete)
        /\ Size(m_tris) = Size(h_before.tris) + Len(pull.triangles_to_add)
        /\ Cardinality(LiveTriangles(m_tris)) = Cardinality(LiveTriangles(h_before.tris))
        /\ \A k \in 1..Len(pull.triangles_to_delete) :
              /\ m_tris[pull.triangles_to_delete[k]] = <<0, 0, 0>>
              /\ m_tris[Size(h_before.tris) + k - 1] =
                    Reattached(h_before.tris[pull.triangles_to_delete[k]],
                               pull.vertex_index,
                               pull.vertices_added[ComponentOf(pull.triangles_to_delete[k])])
        /\ \A t \in DOMAIN h_before.tris \ Moved : m_tris[t] = h_before.tris[t]
        /\ Range(pull.connected_components[Len(pull.connected_components)])
              \subseteq LiveTriangles(m_tris)

\* a commit that moved a component of two triangles and left triangles that
\* are not incident to the pulled vertex
C29_Reached ==
    /\ pull_ret = "true"
    /\ Len(pull.triangles_to_delete) >= 2
    /\ \E t \in LiveTriangles(h_before.tris) : pull.vertex_index \notin
          {h_before.tris[t][1], h_before.tris[t][2], h_before.tris[t][3]}

(***************************************************************************)
(* The loop of MeshPincher::process_mesh, whose bound grows while it runs. *)
(***************************************************************************)
\* the vertex was created during the pass
CreatedInPass(v) == v >= h_pass.num_vertices

\* the trips the loop has begun: i of them, and the one a pull is running in
TripsBegun == IF pinch_pc \in {"pull", "check"} THEN pinch_i + 1 ELSE pinch_i

\* vertices of before the pass still to examine, then vertices still to examine
Remaining(i, num_vertices) ==
    <<IF i < h_pass.num_vertices THEN h_pass.num_vertices - i ELSE 0, num_vertices - i>>

LexLess(a, b) == a[1] < b[1] \/ (a[1] = b[1] /\ a[2] < b[2])

\* get_num_vertices() when the trip under way began
TripNumVertices ==
    IF pinch_pc = "check" THEN Size(h_before.positions) ELSE Size(m_positions)

PassExaminesInOrder ==
    /\ pinch_i <= Size(m_positions)
    /\ Len(h_pass.examined) = TripsBegun
    /\ \A k \in DOMAIN h_pass.examined : h_pass.examined[k] = k - 1
    /\ \A v \in h_pass.pulled : ~CreatedInPass(v)
    /\ pinch_pc = "done" =>
          /\ Range(h_pass.examined) = DOMAIN m_positions
          /\ Once(h_pass.examined)
          /\ h_pass.num_vertices <= Size(m_positions)

TripShortensPass ==
    /\ (pinch_pc \in {"loop", "check"} /\ pinch_i' # pinch_i) =>
          /\ pinch_i' = pinch_i + 1
          /\ LexLess(Remaining(pinch_i', Size(m_positions')),
                     Remaining(pinch_i, TripNumVertices))
    /\ (pinch_pc = "loop" /\ pinch_i < Size(m_positions) /\ CreatedInPass(pinch_i)) =>
          /\ pinch_pc' = "loop"
          /\ pinch_i' = pinch_i + 1
          /\ Size(m_positions') = Size(m_positions)

\* C30: process_mesh terminates although get_num_vertices() grows while it
\* runs: the vertices are examined once each in the order of their indices,
\* those of before the pass and those created during it; only a vertex of
\* before the pass is pulled apart, the trip for a created vertex creates no
\* vertex, and every trip lowers, in the lexicographic order, the pair of
\* natural numbers Remaining, so that the trips cannot go on for ever.
C30_ProcessMeshTerminates ==
    /\ [](pinch_pc # "idle" => PassExaminesInOrder)
    /\ [][TripShortensPass]_vars

\* the pass is over, and it examined a duplicate that was committed and one
\* that a rejected pull-apart had removed again
C30_Reached ==
    /\ pinch_pc = "done"
    /\ h_pass.num_vertices < Size(m_positions)
    /\ \E v, w \in Range(h_pass.examined) :
          /\ CreatedInPass(v) /\ CreatedInPass(w)
          /\ IncidentTriangles(v) # {}
          /\ IncidentTriangles(w) = {}
          /\ w \notin DOMAIN bp_vertex

=============================================================================
